---- MODULE Spec2Model ----
(***************************************************************************)
(* Token accounting and training-time estimation (Pleiades440/token_test). *)
(*                                                                         *)
(* A Python str is modelled as the sequence of its Unicode code points, a  *)
(* parsed JSON value as a record tagged with its Python type, and a Python *)
(* exception as an explicit "raise" outcome.  Python's float arithmetic in *)
(* the estimator is modelled by exact rationals <<numerator, denominator>>.*)
(***************************************************************************)
EXTENDS Integers, Sequences, FiniteSets, TLC

VARIABLES
    \* ---- TokenizerComparator._extract_text_from_json applied to one record
    item,            \* the parsed record handed to _extract_text_from_json
    extracted,       \* its outcome: not yet called, or [kind, text]
    \* ---- TokenizerComparator._load_local_dataset on one file
    file,            \* the file at `path`: [exists, ext, lines, doc]
    line_count,      \* number of lines read so far (.jsonl loop)
    error_count,     \* number of JSONDecodeErrors so far (.jsonl loop)
    texts,           \* the samples collected so far
    load_state,      \* "idle" | "reading" | "returned" | "failed" (returned None)
    \* ---- TrainingTimeEstimator.estimate_training_time / format_time
    est_in,          \* the arguments of one estimate_training_time call
    est_out,         \* what the call returned or that it raised
    fmt_in,          \* the duration handed to format_time
    fmt_out,         \* format_time's time_parts and the returned text
    \* ---- Corpus Scaler
    scale_in,        \* [table, measured_size, target_size]
    scale_out,       \* scale(table, measured_size, target_size)
    scale_back,      \* scale(scale_out, target_size, measured_size)
    \* ---- run.py main loop around TokenizerComparator and TrainingTimeEstimator
    model_options,   \* comparator.model_options, the `models` list of config.yaml
    pc,              \* where the current iteration of main's loop stands
    selected_model_indices,  \* run_tokenizer_comparison's list after the prompt
    all_chosen,      \* the "all models" branch (run.py line 138) was taken
    dataset_texts,   \* what load_dataset_texts returned: [loaded, texts]
    tokenizers,      \* self.tokenizers: model index -> [model_name, kind]
    successful_models,       \* what load_tokenizers returned
    load_calls,      \* the AutoTokenizer.from_pretrained calls made: [model_index, source]
    results,         \* process_dataset's results dictionary
    sample_idx,      \* position of `for text in dataset_texts` (1-based)
    model_pos,       \* position of `for model_index in selected_model_indices`
    progress,        \* progress_bar.n, the bytes reported so far
    total_tokens_dict,       \* run_tokenizer_comparison's per-model totals
    estimates,       \* per model: what running_train passed on and printed
    attempts,        \* ask_for_restart's attempts counter
    answer           \* what the user typed last at ask_for_restart's prompt

extract_vars == <<item, extracted>>
load_vars    == <<file, line_count, error_count, texts, load_state>>
est_vars     == <<est_in, est_out, fmt_in, fmt_out>>
scale_vars   == <<scale_in, scale_out, scale_back>>
acct_vars    == <<tokenizers, successful_models, load_calls, results, sample_idx, model_pos,
                 progress>>
main_vars    == <<model_options, pc, selected_model_indices, all_chosen, dataset_texts,
                 total_tokens_dict, estimates, attempts, answer>>
main_vars_but_pc == <<model_options, selected_model_indices, all_chosen, dataset_texts,
                      total_tokens_dict, estimates, attempts, answer>>
pipe_vars    == <<acct_vars, main_vars>>
vars         == <<extract_vars, load_vars, est_vars, scale_vars, pipe_vars>>

\* what the operations of one component leave alone
not_extract  == <<load_vars, est_vars, scale_vars, pipe_vars>>
not_load     == <<extract_vars, est_vars, scale_vars, pipe_vars>>
not_est      == <<extract_vars, load_vars, scale_vars, pipe_vars>>
not_scale    == <<extract_vars, load_vars, est_vars, pipe_vars>>
not_pipe     == <<extract_vars, load_vars, est_vars, scale_vars>>

-----------------------------------------------------------------------------
(* Python values                                                           *)

\* str literals used by the code, as code points
NL    == <<10>>                     \* "\n"
SP    == <<32>>                     \* " "
EMPTY == <<>>                       \* ""

\* json.loads results: one record shape for every Python type
JStr(s)      == [t |-> "str",  s |-> s,    n |-> 0, items |-> <<>>, keys |-> <<>>]
JNum(k)      == [t |-> "num",  s |-> <<>>, n |-> k, items |-> <<>>, keys |-> <<>>]
JBool(b)     == [t |-> "bool", s |-> <<>>, n |-> IF b THEN 1 ELSE 0,
                 items |-> <<>>, keys |-> <<>>]
JNull        == [t |-> "null", s |-> <<>>, n |-> 0, items |-> <<>>, keys |-> <<>>]
JList(xs)    == [t |-> "list", s |-> <<>>, n |-> 0, items |-> xs,   keys |-> <<>>]
\* a dict keeps insertion order: keys[i] maps to items[i], keys are distinct
JDict(ks, xs) == [t |-> "dict", s |-> <<>>, n |-> 0, items |-> xs,  keys |-> ks]

\* the code points of the dict keys that occur in the modelled records
KeyChars(k) ==
    CASE k = "instruction" -> <<105, 110, 115, 116, 114, 117, 99, 116, 105, 111, 110>>
      [] k = "input"       -> <<105, 110, 112, 117, 116>>
      [] k = "output"      -> <<111, 117, 116, 112, 117, 116>>
      [] k = "text"        -> <<116, 101, 120, 116>>
      [] k = "content"     -> <<99, 111, 110, 116, 101, 110, 116>>
      [] k = "choices"     -> <<99, 104, 111, 105, 99, 101, 115>>
      [] k = "question"    -> <<113, 117, 101, 115, 116, 105, 111, 110>>
      [] k = "answer"      -> <<97, 110, 115, 119, 101, 114>>
      [] OTHER             -> <<102, 111, 111>>          \* "foo"

\* bool(v): Python truthiness
Truthy(v) ==
    CASE v.t = "str"  -> Len(v.s) > 0
      [] v.t = "num"  -> v.n # 0
      [] v.t = "bool" -> v.n # 0
      [] v.t = "null" -> FALSE
      [] v.t = "list" -> Len(v.items) > 0
      [] v.t = "dict" -> Len(v.keys) > 0

\* `key in item` and `item[key]` / `item.get(key)` for a dict
HasKey(d, k) == \E i \in 1..Len(d.keys) : d.keys[i] = k
Get(d, k)    == d.items[CHOOSE i \in 1..Len(d.keys) : d.keys[i] = k]

\* sep.join(parts) for a list of str
RECURSIVE Join(_, _)
Join(parts, sep) ==
    IF parts = <<>> THEN <<>>
    ELSE IF Len(parts) = 1 THEN parts[1]
    ELSE parts[1] \o sep \o Join(Tail(parts), sep)

\* str(k) for an int k >= 0
RECURSIVE Digits(_)
Digits(k) == IF k < 10 THEN <<48 + k>> ELSE Digits(k \div 10) \o <<48 + (k % 10)>>

\* repr(v), as str() uses it for the elements of containers
RECURSIVE Repr(_), ReprItems(_), ReprPairs(_, _)
Repr(v) ==
    CASE v.t = "str"  -> <<39>> \o v.s \o <<39>>
      [] v.t = "num"  -> Digits(v.n)
      [] v.t = "bool" -> IF v.n = 1 THEN <<84, 114, 117, 101>>
                                    ELSE <<70, 97, 108, 115, 101>>
      [] v.t = "null" -> <<78, 111, 110, 101>>
      [] v.t = "list" -> <<91>> \o ReprItems(v.items) \o <<93>>
      [] v.t = "dict" -> <<123>> \o ReprPairs(v.keys, v.items) \o <<125>>
ReprItems(xs) ==
    IF xs = <<>> THEN <<>>
    ELSE IF Len(xs) = 1 THEN Repr(xs[1])
    ELSE Repr(xs[1]) \o <<44, 32>> \o ReprItems(Tail(xs))
ReprPairs(ks, xs) ==
    IF ks = <<>> THEN <<>>
    ELSE LET one == <<39>> \o KeyChars(ks[1]) \o <<39, 58, 32>> \o Repr(xs[1])
         IN  IF Len(ks) = 1 THEN one
             ELSE one \o <<44, 32>> \o ReprPairs(Tail(ks), Tail(xs))

\* str(v)
PyStr(v) == IF v.t = "str" THEN v.s ELSE Repr(v)

-----------------------------------------------------------------------------
(* TokenizerComparator._extract_text_from_json                             *)

\* what a call yields: a str, None, or an exception that leaves the call
RetStr(s) == [kind |-> "str",   text |-> s]
RetNone   == [kind |-> "None",  text |-> <<>>]
Raised    == [kind |-> "raise", text |-> <<>>]
\* `if extracted_text:` on a returned value
RetTruthy(r) == r.kind = "str" /\ Len(r.text) > 0

\* " ".join(value): TypeError unless every element is a str
JoinStrList(xs) ==
    IF \A i \in 1..Len(xs) : xs[i].t = "str"
    THEN RetStr(Join([i \in 1..Len(xs) |-> xs[i].s], SP))
    ELSE Raised

\* mutant: content is looked at before text
TextFieldsContentFirst ==
    <<"content", "text", "article", "body", "question", "input", "output",
      "prompt", "context", "answer", "choices", "option", "options", "instruction">>

\* lines 220-221
text_fields ==
    <<"text", "content", "article", "body", "question", "input", "output",
      "prompt", "context", "answer", "choices", "option", "options", "instruction">>

RECURSIVE _extract_text_from_json(_), FieldListParts(_, _), ScanTextFields(_, _),
          ScanStringValues(_, _), NestedListParts(_, _), ScanNested(_, _)

\* lines 231-239: the text_parts of a list-valued field; <<"raise">> if a
\* recursive call raised
FieldListParts(value, acc) ==
    IF value = <<>> THEN [raised |-> FALSE, parts |-> acc]
    ELSE LET part == value[1] IN
         IF part.t = "str" THEN FieldListParts(Tail(value), Append(acc, part.s))
         ELSE IF part.t = "dict"
         THEN LET nested_text == _extract_text_from_json(part) IN
              IF nested_text.kind = "raise" THEN [raised |-> TRUE, parts |-> acc]
              ELSE IF RetTruthy(nested_text)
                   THEN FieldListParts(Tail(value), Append(acc, nested_text.text))
                   ELSE FieldListParts(Tail(value), acc)
         ELSE FieldListParts(Tail(value), acc)

\* lines 224-241: for field in text_fields, from position f on
ScanTextFields(it, f) ==
    IF f > Len(text_fields) THEN RetNone
    ELSE LET field == text_fields[f] IN
         IF HasKey(it, field) /\ Truthy(Get(it, field))
         THEN LET value == Get(it, field) IN
              IF value.t = "str" THEN RetStr(value.s)
              ELSE IF value.t = "list"
              THEN LET tp == FieldListParts(value.items, <<>>) IN
                   IF tp.raised THEN Raised
                   ELSE IF tp.parts # <<>> THEN RetStr(Join(tp.parts, SP))
                   ELSE ScanTextFields(it, f + 1)
              ELSE ScanTextFields(it, f + 1)
         ELSE ScanTextFields(it, f + 1)

\* lines 244-249: for key, value in item.items(), from position i on
ScanStringValues(it, i) ==
    IF i > Len(it.keys) THEN RetNone
    ELSE LET value == it.items[i] IN
         IF value.t = "str" /\ Len(value.s) > 0 THEN RetStr(value.s)
         ELSE IF value.t = "list" /\ Len(value.items) > 0 /\ value.items[1].t = "str"
         THEN JoinStrList(value.items)
         ELSE ScanStringValues(it, i + 1)

\* lines 259-263: the text_parts of a list of dicts
NestedListParts(value, acc) ==
    IF value = <<>> THEN [raised |-> FALSE, parts |-> acc]
    ELSE LET nested_text == _extract_text_from_json(value[1]) IN
         IF nested_text.kind = "raise" THEN [raised |-> TRUE, parts |-> acc]
         ELSE IF RetTruthy(nested_text)
              THEN NestedListParts(Tail(value), Append(acc, nested_text.text))
              ELSE NestedListParts(Tail(value), acc)

\* lines 252-265: for value in item.values(), from position i on
ScanNested(it, i) ==
    IF i > Len(it.keys) THEN RetNone
    ELSE LET value == it.items[i] IN
         IF value.t = "dict"
         THEN LET nested_text == _extract_text_from_json(value) IN
              IF nested_text.kind = "raise" THEN Raised
              ELSE IF RetTruthy(nested_text) THEN nested_text
              ELSE ScanNested(it, i + 1)
         ELSE IF value.t = "list" /\ Len(value.items) > 0 /\ value.items[1].t = "dict"
         THEN LET tp == NestedListParts(value.items, <<>>) IN
              IF tp.raised THEN Raised
              ELSE IF tp.parts # <<>> THEN RetStr(Join(tp.parts, SP))
              ELSE ScanNested(it, i + 1)
         ELSE ScanNested(it, i + 1)

\* lines 203-215: the non-empty instruction / input / output values, stringified
TripleParts(it) ==
    LET keep(k) == IF Truthy(Get(it, k)) THEN <<PyStr(Get(it, k))>> ELSE <<>>
    IN  keep("instruction") \o keep("input") \o keep("output")

\* lines 201-218: the instruction + input + output rule applies and returns
TripleApplies(it) ==
    /\ \A k \in {"instruction", "input", "output"} : HasKey(it, k)
    /\ TripleParts(it) # <<>>

\* lines 220-265: the rules after the triple rule
DictFallbacks(it) ==
    LET r2 == ScanTextFields(it, 1) IN
    IF r2.kind # "None" THEN r2
    ELSE LET r3 == ScanStringValues(it, 1) IN
         IF r3.kind # "None" THEN r3
         ELSE ScanNested(it, 1)

\* mutant: the fixed field list is scanned before the triple rule
ExtractFieldsFirst(it) ==
    IF it.t = "dict"
    THEN LET r == DictFallbacks(it) IN
         IF r.kind # "None" THEN r
         ELSE IF TripleApplies(it) THEN RetStr(Join(TripleParts(it), NL))
         ELSE RetNone
    ELSE IF it.t = "str" /\ Len(it.s) > 0 THEN RetStr(it.s)
    ELSE IF it.t = "list" /\ Len(it.items) > 0 /\ it.items[1].t = "str"
    THEN JoinStrList(it.items)
    ELSE RetNone

_extract_text_from_json(it) ==
    IF it.t = "dict"
    THEN IF TripleApplies(it) THEN RetStr(Join(TripleParts(it), NL))
         ELSE DictFallbacks(it)
    ELSE IF it.t = "str" /\ Len(it.s) > 0 THEN RetStr(it.s)
    ELSE IF it.t = "list" /\ Len(it.items) > 0 /\ it.items[1].t = "str"
    THEN JoinStrList(it.items)
    ELSE RetNone

-----------------------------------------------------------------------------
(* Dataset files                                                           *)

\* json.dumps(v): the text of a line (or document) that json.loads turns into v
RECURSIVE JsonDumps(_), DumpItems(_), DumpPairs(_, _)
JsonDumps(v) ==
    CASE v.t = "str"  -> <<34>> \o v.s \o <<34>>
      [] v.t = "num"  -> Digits(v.n)
      [] v.t = "bool" -> IF v.n = 1 THEN <<116, 114, 117, 101>>
                                    ELSE <<102, 97, 108, 115, 101>>
      [] v.t = "null" -> <<110, 117, 108, 108>>
      [] v.t = "list" -> <<91>> \o DumpItems(v.items) \o <<93>>
      [] v.t = "dict" -> <<123>> \o DumpPairs(v.keys, v.items) \o <<125>>
DumpItems(xs) ==
    IF xs = <<>> THEN <<>>
    ELSE IF Len(xs) = 1 THEN JsonDumps(xs[1])
    ELSE JsonDumps(xs[1]) \o <<44, 32>> \o DumpItems(Tail(xs))
DumpPairs(ks, xs) ==
    IF ks = <<>> THEN <<>>
    ELSE LET one == <<34>> \o KeyChars(ks[1]) \o <<34, 58, 32>> \o JsonDumps(xs[1])
         IN  IF Len(ks) = 1 THEN one
             ELSE one \o <<44, 32>> \o DumpPairs(Tail(ks), Tail(xs))

\* One line of a file as the file iterator yields it: its raw text (newline
\* included) and what json.loads makes of the stripped text: a value, or
\* JSONDecodeError (decoded = FALSE).
JsonLine(v)    == [raw |-> JsonDumps(v) \o NL, decoded |-> TRUE,  obj |-> v]
BadLine(chars) == [raw |-> chars \o NL,        decoded |-> FALSE, obj |-> JNull]

Whitespace == {9, 10, 13, 32}
\* line.strip()
RECURSIVE LStrip(_), RStrip(_)
LStrip(s) == IF s # <<>> /\ s[1] \in Whitespace THEN LStrip(Tail(s)) ELSE s
RStrip(s) ==
    IF s # <<>> /\ s[Len(s)] \in Whitespace THEN RStrip(SubSeq(s, 1, Len(s) - 1)) ELSE s
Strip(s) == LStrip(RStrip(s))

\* one element of f.read().splitlines(): the line without its terminator
SplitLine(raw) ==
    IF raw # <<>> /\ raw[Len(raw)] = 10 THEN SubSeq(raw, 1, Len(raw) - 1) ELSE raw

\* sample texts and records the modelled files are built from
T_a  == <<97>>                       \* "a"
T_b  == <<98>>                       \* "b"
T_zh == <<20013, 25991>>             \* two CJK characters, 3 UTF-8 bytes each
T_mix == <<97, 233, 128512>>         \* 1-, 2- and 4-byte code points: 7 bytes

R_text      == JDict(<<"text">>, <<JStr(T_a)>>)
R_triple    == JDict(<<"instruction", "input", "output">>,
                     <<JStr(T_a), JStr(EMPTY), JStr(T_b)>>)
R_number    == JDict(<<"foo">>, <<JNum(5)>>)
R_mixedlist == JDict(<<"foo">>, <<JList(<<JStr(T_a), JNum(5)>>)>>)
R_nested    == JDict(<<"foo">>, <<JDict(<<"question">>, <<JStr(T_zh)>>)>>)
R_empty     == JDict(<<>>, <<>>)

\* the lines a .jsonl file is drawn from
JsonlLines ==
    { [raw |-> NL, decoded |-> FALSE, obj |-> JNull],              \* empty line
      [raw |-> <<32, 9>> \o NL, decoded |-> FALSE, obj |-> JNull], \* blanks only
      BadLine(<<123, 120>>),                                       \* {x
      BadLine(<<32>> \o T_zh \o <<32>>),                           \* bare text
      JsonLine(JStr(T_a)), JsonLine(JStr(EMPTY)), JsonLine(JNum(5)), JsonLine(JNull),
      JsonLine(JList(<<JStr(T_a), JStr(T_b)>>)),
      JsonLine(JList(<<JStr(T_a), JNum(5)>>)),
      JsonLine(JList(<<JNum(5), JStr(T_a)>>)),
      JsonLine(R_text), JsonLine(R_triple), JsonLine(R_number),
      JsonLine(R_mixedlist), JsonLine(R_nested), JsonLine(R_empty) }

\* the lines a .txt file is drawn from
TxtLines == { NL, T_a \o NL, <<32>> \o T_zh \o NL, <<123, 120>> }

\* the elements of a top-level list in a .json document
DocElements ==
    { JStr(T_a), JStr(EMPTY), JNum(5), JNull, R_text, R_triple, R_number,
      R_mixedlist, R_nested, JList(<<JStr(T_a), JNum(5)>>) }

MaxLines == 2
MaxElems == 2

SeqsUpTo(S, k) == UNION { [1..m -> S] : m \in 0..k }

NoDoc == [decoded |-> FALSE, obj |-> JNull]
\* json.load(f) of a .json file: a value, or an exception (decoded = FALSE)
Docs ==
    {NoDoc}
    \cup { [decoded |-> TRUE, obj |-> v] :
             v \in {JStr(T_a), JNum(5), JNull, JBool(TRUE), R_text, R_triple,
                    R_number, R_mixedlist, R_empty} }
    \cup { [decoded |-> TRUE, obj |-> JList(xs)] : xs \in SeqsUpTo(DocElements, MaxElems) }

\* the file behind `path`
Files ==
    { [exists |-> FALSE, ext |-> e, lines |-> <<>>, doc |-> NoDoc] :
        e \in {"jsonl", "json", "txt"} }
    \cup { [exists |-> TRUE, ext |-> "other", lines |-> <<T_a \o NL>>, doc |-> NoDoc] }
    \cup { [exists |-> TRUE, ext |-> "jsonl", lines |-> ls, doc |-> NoDoc] :
             ls \in SeqsUpTo(JsonlLines, MaxLines) }
    \cup { [exists |-> TRUE, ext |-> "txt", lines |-> ls, doc |-> NoDoc] :
             ls \in { l \in SeqsUpTo(TxtLines, MaxLines) :
                        \A i \in 1..(Len(l) - 1) : l[i][Len(l[i])] = 10 } }
    \cup { [exists |-> TRUE, ext |-> "json", lines |-> <<>>, doc |-> d] : d \in Docs }

-----------------------------------------------------------------------------
(* TokenizerComparator._load_local_dataset                                 *)

\* mutant: the fallback sample is the record serialised as JSON
LineSampleJsonDump(ln) ==
    IF ~ln.decoded THEN RetStr(Strip(ln.raw))
    ELSE LET extracted_text == _extract_text_from_json(ln.obj) IN
         IF extracted_text.kind = "raise" THEN Raised
         ELSE IF RetTruthy(extracted_text) THEN extracted_text
         ELSE RetStr(JsonDumps(ln.obj))

\* lines 111-128: what one non-empty stripped line adds to texts; "raise" when an
\* exception other than JSONDecodeError leaves the inner try
LineSample(ln) ==
    IF ~ln.decoded THEN RetStr(Strip(ln.raw))
    ELSE LET extracted_text == _extract_text_from_json(ln.obj) IN
         IF extracted_text.kind = "raise" THEN Raised
         ELSE IF RetTruthy(extracted_text) THEN extracted_text
         ELSE RetStr(PyStr(ln.obj))

\* lines 153-161: the texts of a top-level list; "raise" as soon as one element raises
RECURSIVE DocListTexts(_, _)
DocListTexts(data, acc) ==
    IF data = <<>> THEN [raised |-> FALSE, texts |-> acc]
    ELSE LET text == _extract_text_from_json(data[1]) IN
         IF text.kind = "raise" THEN [raised |-> TRUE, texts |-> <<>>]
         ELSE IF RetTruthy(text) THEN DocListTexts(Tail(data), Append(acc, text.text))
         ELSE DocListTexts(Tail(data), acc)

\* lines 140-172: the .json branch; returned = FALSE is `return None`
LoadJsonDocument(d) ==
    IF ~d.decoded THEN [returned |-> FALSE, texts |-> <<>>]
    ELSE IF d.obj.t = "list"
    THEN LET r == DocListTexts(d.obj.items, <<>>) IN
         [returned |-> ~r.raised, texts |-> r.texts]
    ELSE IF d.obj.t = "dict"
    THEN LET text == _extract_text_from_json(d.obj) IN
         IF text.kind = "raise" THEN [returned |-> FALSE, texts |-> <<>>]
         ELSE [returned |-> TRUE,
               texts |-> IF RetTruthy(text) THEN <<text.text>> ELSE <<>>]
    ELSE [returned |-> FALSE, texts |-> <<>>]

\* lines 79-99, 140-188: the call up to the first line of a .jsonl file, or to
\* its return for every other kind of path
OpenDataset ==
    /\ load_state = "idle"
    /\ line_count' = 0
    /\ error_count' = 0
    /\ IF ~file.exists THEN load_state' = "failed" /\ texts' = <<>>
       ELSE IF file.ext = "jsonl" THEN load_state' = "reading" /\ texts' = <<>>
       ELSE IF file.ext = "json"
       THEN LET r == LoadJsonDocument(file.doc) IN
            /\ load_state' = IF r.returned THEN "returned" ELSE "failed"
            /\ texts' = r.texts
       ELSE IF file.ext = "txt"
       THEN /\ load_state' = "returned"
            /\ texts' = [i \in 1..Len(file.lines) |-> SplitLine(file.lines[i])]
       ELSE load_state' = "failed" /\ texts' = <<>>
    /\ UNCHANGED <<file, not_load>>

\* lines 105-134: one iteration of `for line in file`
ReadLine ==
    /\ load_state = "reading"
    /\ line_count < Len(file.lines)
    /\ line_count' = line_count + 1
    /\ LET ln   == file.lines[line_count + 1]
           line == Strip(ln.raw)
       IN  IF line = <<>>
           THEN UNCHANGED <<texts, error_count, load_state>>
           ELSE LET s == LineSample(ln) IN
                IF s.kind = "raise"
                THEN /\ load_state' = "failed"
                     /\ texts' = <<>>
                     /\ UNCHANGED error_count
                ELSE /\ texts' = Append(texts, s.text)
                     /\ error_count' = IF ln.decoded THEN error_count ELSE error_count + 1
                     /\ UNCHANGED load_state
    /\ UNCHANGED <<file, not_load>>

\* lines 136-137: the file is exhausted, return texts
ReturnTexts ==
    /\ load_state = "reading"
    /\ line_count = Len(file.lines)
    /\ load_state' = "returned"
    /\ UNCHANGED <<file, line_count, error_count, texts, not_load>>

ExtractIdle == item = JNull /\ extracted = [kind |-> "idle", text |-> <<>>]

LoadInit ==
    /\ file \in Files
    /\ line_count = 0
    /\ error_count = 0
    /\ texts = <<>>
    /\ load_state = "idle"

LoadNext == OpenDataset \/ ReadLine \/ ReturnTexts

-----------------------------------------------------------------------------
(* _extract_text_from_json applied to single records                       *)

\* the values a field of a modelled record may hold
FieldValues ==
    { JStr(EMPTY), JStr(T_a), JStr(T_b), JNum(0), JNum(5), JNull,
      JList(<<>>), JList(<<JStr(T_b), JStr(T_a)>>) }

\* records with instruction, input, output and text all present
TripleRecords ==
    { JDict(ks, <<a, b, c, d>>) :
        ks \in { <<"instruction", "input", "output", "text">>,
                 <<"text", "output", "input", "instruction">> },
        a \in FieldValues, b \in FieldValues, c \in FieldValues, d \in FieldValues }

\* the values a text field is scanned over: also numbers, records and lists
\* with elements of several types
ScanValues ==
    FieldValues
    \cup { JList(<<JNum(5)>>), JList(<<JStr(EMPTY)>>), JList(<<R_text, JNum(5), JStr(T_b)>>),
           R_text, R_empty }

\* records without the instruction / input / output triple, with their keys
\* in another order than text_fields has them
FieldRecords ==
    { JDict(<<"content", "text">>, <<a, b>>) : a \in ScanValues, b \in ScanValues }
    \cup { JDict(<<"foo", "answer", "question">>, <<a, b, c>>) :
             a \in {JStr(T_zh), JNum(5)}, b \in ScanValues, c \in ScanValues }

Records == TripleRecords \cup DocElements \cup FieldRecords

NotCalled == [kind |-> "idle", text |-> <<>>]

\* one call of _extract_text_from_json(item)
ExtractItem ==
    /\ extracted = NotCalled
    /\ extracted' = _extract_text_from_json(item)
    /\ UNCHANGED <<item, not_extract>>

ExtractInit == item \in Records /\ extracted = NotCalled

LoadIdle ==
    /\ file = [exists |-> FALSE, ext |-> "other", lines |-> <<>>, doc |-> NoDoc]
    /\ line_count = 0
    /\ error_count = 0
    /\ texts = <<>>
    /\ load_state = "idle"

ExtractNext == ExtractItem

-----------------------------------------------------------------------------
(* Durations                                                               *)
(* A Python float duration is the exact rational <<n, d>>, d > 0, in       *)
(* lowest terms.                                                           *)

RECURSIVE GCD(_, _)
GCD(a, b) == IF b = 0 THEN a ELSE GCD(b, a % b)
Abs(x) == IF x < 0 THEN 0 - x ELSE x
Norm(q) ==
    LET g == GCD(Abs(q[1]), q[2]) IN
    IF q[1] = 0 THEN <<0, 1>> ELSE <<q[1] \div g, q[2] \div g>>

\* floor(q) and whether q has a fractional part
Whole(q)   == q[1] \div q[2]
HasFrac(q) == q[1] % q[2] # 0

-----------------------------------------------------------------------------
(* TrainingTimeEstimator.format_time (the same text in both estimator files) *)

UnitChars(u) ==
    CASE u = "days"    -> <<22825>>
      [] u = "hours"   -> <<23567, 26102>>
      [] u = "minutes" -> <<20998, 38047>>
      [] u = "seconds" -> <<31186>>

\* mutant: the hours are taken from the whole duration, days included
TimePartsHoursOfTotal(q) ==
    LET days    == Whole(q) \div 86400
        hours   == Whole(q) \div 3600
        r2      == Whole(q) % 3600
        minutes == r2 \div 60
        secs    == r2 % 60
        big     == (IF days > 0 THEN <<[n |-> days, unit |-> "days"]>> ELSE <<>>)
                \o (IF hours > 0 THEN <<[n |-> hours, unit |-> "hours"]>> ELSE <<>>)
                \o (IF minutes > 0 THEN <<[n |-> minutes, unit |-> "minutes"]>> ELSE <<>>)
    IN  IF (secs > 0 \/ HasFrac(q)) \/ Len(big) = 0
        THEN Append(big, [n |-> secs, unit |-> "seconds"])
        ELSE big

\* lines 38-54: the list time_parts as (displayed int, unit) pairs.  x // k and
\* x % k of the float x are taken on floor(x); the fraction stays in the last
\* remainder, which is what `seconds > 0` tests and int(seconds) drops.
time_parts(q) ==
    LET days    == Whole(q) \div 86400
        r1      == Whole(q) % 86400
        hours   == r1 \div 3600
        r2      == r1 % 3600
        minutes == r2 \div 60
        secs    == r2 % 60
        big     == (IF days > 0 THEN <<[n |-> days, unit |-> "days"]>> ELSE <<>>)
                \o (IF hours > 0 THEN <<[n |-> hours, unit |-> "hours"]>> ELSE <<>>)
                \o (IF minutes > 0 THEN <<[n |-> minutes, unit |-> "minutes"]>> ELSE <<>>)
    IN  IF (secs > 0 \/ HasFrac(q)) \/ Len(big) = 0
        THEN Append(big, [n |-> secs, unit |-> "seconds"])
        ELSE big

RenderParts(parts) ==
    Join([i \in 1..Len(parts) |-> Digits(parts[i].n) \o UnitChars(parts[i].unit)], SP)

\* lines 34-35: seconds <= 0 returns the fixed text
ZeroParts == <<[n |-> 0, unit |-> "seconds"]>>

format_time(q) ==
    IF q[1] <= 0
    THEN [parts |-> ZeroParts, text |-> <<48>> \o UnitChars("seconds")]
    ELSE [parts |-> time_parts(q), text |-> RenderParts(time_parts(q))]

-----------------------------------------------------------------------------
(* TrainingTimeEstimator.estimate_training_time, TrainingTimeEstimator.py  *)

gpu_throughput ==
    [g \in {"NVIDIA H100", "NVIDIA A100", "NVIDIA RTX 4090", "Huawei Ascend 910B"} |->
        CASE g = "NVIDIA H100"        -> 3500
          [] g = "NVIDIA A100"        -> 2000
          [] g = "NVIDIA RTX 4090"    -> 800
          [] g = "Huawei Ascend 910B" -> 2800]

cluster_config ==
    [c \in {"single", "single_node", "8_nodes", "16_nodes", "32_nodes", "64_nodes",
            "128_nodes"} |->
        CASE c = "single"      -> 1
          [] c = "single_node" -> 8
          [] c = "8_nodes"     -> 64
          [] c = "16_nodes"    -> 128
          [] c = "32_nodes"    -> 256
          [] c = "64_nodes"    -> 512
          [] c = "128_nodes"   -> 1024]

\* efficiency_factors, in hundredths, by worker count
efficiency(count) == IF count = 1 THEN 95 ELSE IF count <= 8 THEN 85 ELSE 65

EstRaised == [raised |-> TRUE, seconds |-> <<0, 1>>, world_size |-> 0, throughput |-> 0]
EstValue(q, ws, tp) ==
    [raised |-> FALSE, seconds |-> Norm(q), world_size |-> ws, throughput |-> tp]

\* total_tokens / (per_worker * workers * efficiency); ZeroDivisionError raises
Duration(total_tokens, per_worker, workers, eff) ==
    LET den == per_worker * workers * eff IN
    IF den = 0 THEN EstRaised
    ELSE IF den > 0 THEN EstValue(<<total_tokens * 100, den>>, workers, per_worker)
    ELSE EstValue(<<0 - total_tokens * 100, 0 - den>>, workers, per_worker)

estimate_training_time(token_count, gpu_type, cluster_size, epochs) ==
    IF gpu_type \notin DOMAIN gpu_throughput THEN EstRaised
    ELSE IF cluster_size \notin DOMAIN cluster_config THEN EstRaised
    ELSE LET gpu_tokens_per_sec == gpu_throughput[gpu_type]
             gpu_count          == cluster_config[cluster_size]
         IN  Duration(token_count * epochs, gpu_tokens_per_sec, gpu_count,
                      efficiency(gpu_count))

-----------------------------------------------------------------------------
(* TrainingTimeEstimator.estimate_training_time, tempCodeRunnerFile.py     *)

\* model_config.get(method, {}): present = FALSE when the key is missing or its
\* value is empty; throughput and world_size already carry the .get defaults
\* (0 and 1) when the entry leaves them out
Method(tp, ws) == [present |-> TRUE,  throughput |-> tp, world_size |-> ws]
NoMethod       == [present |-> FALSE, throughput |-> 0,  world_size |-> 1]
Methods        == {"full", "lora", "qlora"}

ModelConfig(nm, all, full, lora) ==
    [name |-> nm, is_all_option |-> all,
     methods |-> [m \in Methods |-> IF m = "full" THEN full
                                    ELSE IF m = "lora" THEN lora ELSE NoMethod]]

\* self.model_configs: the `models` list of the configuration file
EstimatorConfig ==
    << ModelConfig("ALL",  TRUE,  Method(100, 4), NoMethod),
       ModelConfig("M4",   TRUE,  Method(7, 1),   NoMethod),
       ModelConfig("M4",   FALSE, Method(100, 4), Method(200, 1)),
       ModelConfig("M16",  FALSE, Method(50, 16), NoMethod),
       ModelConfig("Zero", FALSE, Method(0, 1),   Method(0 - 5, 2)),
       ModelConfig("Neg",  FALSE, Method(100, 0 - 2), Method(100, 0)) >>

\* mutant: the first entry with the name is taken, placeholder or not
EstimateCfgAnyEntry(token_count, model_configs, model_name, fine_tune_method, epochs) ==
    LET hits == { i \in 1..Len(model_configs) : model_configs[i].name = model_name }
    IN  IF hits = {} THEN EstRaised
        ELSE LET model_config  == model_configs[CHOOSE i \in hits : \A j \in hits : i <= j]
                 method_config == model_config.methods[fine_tune_method]
             IN  IF ~method_config.present \/ method_config.throughput <= 0 THEN EstRaised
                 ELSE Duration(token_count * epochs, method_config.throughput,
                               method_config.world_size, efficiency(method_config.world_size))

\* mutant: the efficiency factor is left out of the divisor
EstimateCfgNoEfficiency(token_count, model_configs, model_name, fine_tune_method, epochs) ==
    LET hits == { i \in 1..Len(model_configs) :
                    model_configs[i].name = model_name /\ ~model_configs[i].is_all_option }
    IN  IF hits = {} THEN EstRaised
        ELSE LET model_config  == model_configs[CHOOSE i \in hits : \A j \in hits : i <= j]
                 method_config == model_config.methods[fine_tune_method]
             IN  IF ~method_config.present \/ method_config.throughput <= 0 THEN EstRaised
                 ELSE Duration(token_count * epochs, method_config.throughput,
                               method_config.world_size, 100)

estimate_training_time_cfg(token_count, model_configs, model_name, fine_tune_method, epochs) ==
    LET hits == { i \in 1..Len(model_configs) :
                    model_configs[i].name = model_name /\ ~model_configs[i].is_all_option }
    IN  IF hits = {} THEN EstRaised
        ELSE LET model_config  == model_configs[CHOOSE i \in hits : \A j \in hits : i <= j]
                 method_config == model_config.methods[fine_tune_method]
                 throughput    == method_config.throughput
                 world_size    == method_config.world_size
             IN  IF ~method_config.present THEN EstRaised
                 ELSE IF throughput <= 0 THEN EstRaised
                 ELSE Duration(token_count * epochs, throughput, world_size,
                               efficiency(world_size))

-----------------------------------------------------------------------------
(* Calls of the estimator and of format_time                               *)

MaxEpochs == 2
TokenCounts == {0, 1, 7, 120000}

NoEstimate == [variant |-> "none", token_count |-> 0, who |-> "", how |-> "", epochs |-> 0]
EstInputs ==
    { [variant |-> "gpu", token_count |-> t, who |-> g, how |-> c, epochs |-> e] :
        t \in TokenCounts, g \in DOMAIN gpu_throughput \cup {"TPU"},
        c \in DOMAIN cluster_config \cup {"rack"}, e \in 0..MaxEpochs }
    \cup
    { [variant |-> "cfg", token_count |-> t, who |-> nm, how |-> m, epochs |-> e] :
        t \in TokenCounts, nm \in {"ALL", "M4", "M16", "Zero", "Neg", "Other"},
        m \in Methods, e \in 0..MaxEpochs }

\* durations handed to format_time directly: whole seconds and halves around
\* every unit boundary, and one negative value
NoDuration == <<0 - 1, 0>>
Durations ==
    { Norm(<<2 * (d * 86400 + h * 3600 + m * 60 + s) + f, 2>>) :
        d \in {0, 1, 3}, h \in {0, 1, 23}, m \in {0, 1, 59}, s \in {0, 1, 59},
        f \in {0, 1} }
    \cup {<<0 - 3, 2>>, <<0 - 60, 1>>}

EstIdleOut == [raised |-> FALSE, seconds |-> <<0, 1>>, world_size |-> 0, throughput |-> 0,
               called |-> FALSE]
FmtIdleOut == [parts |-> <<>>, text |-> <<>>]

\* one call of estimate_training_time with the arguments est_in
Estimate ==
    /\ est_in # NoEstimate
    /\ ~est_out.called
    /\ LET r == IF est_in.variant = "gpu"
                THEN estimate_training_time(est_in.token_count, est_in.who, est_in.how,
                                            est_in.epochs)
                ELSE estimate_training_time_cfg(est_in.token_count, EstimatorConfig,
                                                est_in.who, est_in.how, est_in.epochs)
       IN  est_out' = [raised |-> r.raised, seconds |-> r.seconds,
                       world_size |-> r.world_size, throughput |-> r.throughput,
                       called |-> TRUE]
    /\ UNCHANGED <<est_in, fmt_in, fmt_out, not_est>>

\* format_time(training_seconds) on the value the estimator returned
FormatEstimate ==
    /\ est_out.called /\ ~est_out.raised
    /\ fmt_out = FmtIdleOut
    /\ fmt_in' = est_out.seconds
    /\ fmt_out' = format_time(est_out.seconds)
    /\ UNCHANGED <<est_in, est_out, not_est>>

\* format_time(fmt_in) called on its own
FormatTime ==
    /\ est_in = NoEstimate
    /\ fmt_in # NoDuration
    /\ fmt_out = FmtIdleOut
    /\ fmt_out' = format_time(fmt_in)
    /\ UNCHANGED <<est_in, est_out, fmt_in, not_est>>

EstimateInit ==
    /\ est_out = EstIdleOut
    /\ fmt_out = FmtIdleOut
    /\ \/ est_in \in EstInputs /\ fmt_in = NoDuration
       \/ est_in = NoEstimate /\ fmt_in \in Durations

EstimateIdle ==
    /\ est_in = NoEstimate
    /\ est_out = EstIdleOut
    /\ fmt_in = NoDuration
    /\ fmt_out = FmtIdleOut

EstimateNext == Estimate \/ FormatEstimate \/ FormatTime

-----------------------------------------------------------------------------
(* Corpus Scaler: scale(per_model_tokens, measured_size, target_size)      *)
(* The repository files at hand hold no scaler; it is modelled from its    *)
(* contract: one factor target_size / measured_size multiplies every       *)
(* model's count, the product is truncated to an integer, and the call     *)
(* fails with InvalidSize if either size is <= 0.                          *)

MaxCount == 6
MaxSize == 4
ScaleModels == {"A", "B"}

\* a failed call hands back no table
NoTable == [m \in {} |-> 0]

\* mutant: only target_size is validated
ScaleTargetOnly(table, measured_size, target_size) ==
    IF target_size <= 0 THEN [status |-> "InvalidSize", table |-> NoTable]
    ELSE IF measured_size <= 0 THEN [status |-> "ok", table |-> table]
    ELSE [status |-> "ok",
          table  |-> [m \in DOMAIN table |-> (table[m] * target_size) \div measured_size]]

\* mutant: the product is rounded up instead of truncated
ScaleRoundUp(table, measured_size, target_size) ==
    IF target_size <= 0 \/ measured_size <= 0
    THEN [status |-> "InvalidSize", table |-> NoTable]
    ELSE [status |-> "ok",
          table  |-> [m \in DOMAIN table |->
                        (table[m] * target_size + measured_size - 1) \div measured_size]]

scale(table, measured_size, target_size) ==
    IF target_size <= 0 \/ measured_size <= 0
    THEN [status |-> "InvalidSize", table |-> NoTable]
    ELSE [status |-> "ok",
          table  |-> [m \in DOMAIN table |-> (table[m] * target_size) \div measured_size]]

ScaleNotCalled == [status |-> "idle", table |-> [m \in ScaleModels |-> 0]]

\* scale(T, M, T2)
Scale ==
    /\ scale_out = ScaleNotCalled
    /\ scale_out' = scale(scale_in.table, scale_in.measured_size, scale_in.target_size)
    /\ UNCHANGED <<scale_in, scale_back, not_scale>>

\* scale(scale(T, M, T2), T2, M)
ScaleBack ==
    /\ scale_out.status = "ok"
    /\ scale_back = ScaleNotCalled
    /\ scale_back' = scale(scale_out.table, scale_in.target_size, scale_in.measured_size)
    /\ UNCHANGED <<scale_in, scale_out, not_scale>>

ScaleInit ==
    /\ scale_in \in [table : [ScaleModels -> 0..MaxCount],
                     measured_size : (0 - 1)..MaxSize, target_size : (0 - 1)..MaxSize]
    /\ scale_out = ScaleNotCalled
    /\ scale_back = ScaleNotCalled

ScaleIdle ==
    /\ scale_in = [table |-> [m \in ScaleModels |-> 0], measured_size |-> 1,
                   target_size |-> 1]
    /\ scale_out = ScaleNotCalled
    /\ scale_back = ScaleNotCalled

ScaleNext == Scale \/ ScaleBack

-----------------------------------------------------------------------------
(* Tokenizers and the model list                                           *)

\* len(text.encode('utf-8')): UTF-8 spends 1 to 4 bytes per code point
Utf8Len(cp) == IF cp < 128 THEN 1 ELSE IF cp < 2048 THEN 2 ELSE IF cp < 65536 THEN 3 ELSE 4
RECURSIVE TextBytes(_)
\* mutant: the sample is measured in characters
TextChars(text) == Len(text)
TextBytes(text) == IF text = <<>> THEN 0 ELSE Utf8Len(text[1]) + TextBytes(Tail(text))

\* len(tokenizer.encode(text, truncation=False)) for the tokenizers a model
\* entry can load: one token per character, one per byte, one per character
\* but raising on non-ASCII text, and one that raises on every text
Encode(kind, text) ==
    CASE kind = "chars"  -> [raised |-> FALSE, n |-> Len(text)]
      [] kind = "bytes"  -> [raised |-> FALSE, n |-> TextBytes(text)]
      [] kind = "ascii"  -> IF \E i \in 1..Len(text) : text[i] >= 128
                            THEN [raised |-> TRUE, n |-> 0]
                            ELSE [raised |-> FALSE, n |-> Len(text)]
      [] kind = "broken" -> [raised |-> TRUE, n |-> 0]

\* A model descriptor.  local is "absent" (no local_path key), "missing" (the
\* path is not on disk) or "exists"; local_tok / remote_tok is the tokenizer
\* AutoTokenizer.from_pretrained yields from that source, "fail" if it raises.
Model(nm, all, auth, loc, ltok, rtok) ==
    [name |-> nm, is_all_option |-> all, auth_required |-> auth, local |-> loc,
     local_tok |-> ltok, remote_tok |-> rtok]

\* the model lists a configuration file may hold
ModelTables ==
    { << Model("A",   FALSE, FALSE, "exists",  "chars",  "fail"),
         Model("ALL", TRUE,  FALSE, "exists",  "chars",  "chars"),
         Model("G",   FALSE, TRUE,  "exists",  "chars",  "chars"),
         Model("A",   FALSE, FALSE, "absent",  "fail",   "bytes"),
         Model("B",   FALSE, FALSE, "missing", "chars",  "broken") >>,
      << Model("F",   FALSE, FALSE, "absent",  "fail",   "ascii"),
         Model("C",   FALSE, FALSE, "exists",  "fail",   "chars"),
         Model("D",   FALSE, FALSE, "missing", "fail",   "bytes"),
         Model("ALL", TRUE,  TRUE,  "absent",  "fail",   "chars") >> }

\* the sample lists load_dataset_texts may return
MaxSamples == 2
CorpusTexts == {EMPTY, T_a, T_zh, T_mix}
Corpora     == SeqsUpTo(CorpusTexts, MaxSamples)
NotLoaded   == [loaded |-> FALSE, texts |-> <<>>]

-----------------------------------------------------------------------------
(* run_tokenizer_comparison: the model prompt, run.py lines 127-146        *)

MaxChoices == 3

\* lines 129-133: the valid entries of the typed list, 0-based
RECURSIVE ValidIndices(_, _)
ValidIndices(model_choices, n) ==
    IF model_choices = <<>> THEN <<>>
    ELSE LET choice_idx == model_choices[1] - 1
             rest       == ValidIndices(Tail(model_choices), n)
         IN  IF 0 <= choice_idx /\ choice_idx < n THEN <<choice_idx>> \o rest ELSE rest

\* line 136: index of the first is_all_option entry, -1 if there is none
AllModelIdx(options) ==
    LET hits == { i \in 1..Len(options) : options[i].is_all_option } IN
    IF hits = {} THEN 0 - 1 ELSE (CHOOSE i \in hits : \A j \in hits : i <= j) - 1

\* line 137: the typed list names the "all models" entry
AllTyped(options, model_choices) ==
    /\ AllModelIdx(options) # 0 - 1
    /\ \E k \in 1..Len(model_choices) : model_choices[k] = AllModelIdx(options) + 1

\* line 138: every index whose entry is not an is_all_option entry, ascending
RECURSIVE NonPlaceholders(_, _)
NonPlaceholders(options, i) ==
    IF i > Len(options) THEN <<>>
    ELSE (IF options[i].is_all_option THEN <<>> ELSE <<i - 1>>)
         \o NonPlaceholders(options, i + 1)

\* mutant: the "all models" entry is not expanded
SelectTypedOnly(options, model_choices) == ValidIndices(model_choices, Len(options))

SelectIndices(options, model_choices) ==
    IF AllTyped(options, model_choices) THEN NonPlaceholders(options, 1)
    ELSE ValidIndices(model_choices, Len(options))

-----------------------------------------------------------------------------
(* TokenizerComparator.load_tokenizers                                     *)

\* lines 362-390: the one from_pretrained call made for an entry
\* mutant: a descriptor that names a local_path is always loaded from it
LoadSourceIfNamed(model_info) == IF model_info.local # "absent" THEN "local" ELSE "remote"
LoadSource(model_info) == IF model_info.local = "exists" THEN "local" ELSE "remote"
LoadOutcome(model_info) ==
    IF LoadSource(model_info) = "local" THEN model_info.local_tok ELSE model_info.remote_tok

\* lines 347-422: the loop over selected_model_indices; toks is self.tokenizers
RECURSIVE LoadTokenizersAuthToo(_, _, _, _, _)
\* mutant: auth_required entries are loaded like any other
LoadTokenizersAuthToo(options, selected, toks, successful, calls) ==
    IF selected = <<>>
    THEN [tokenizers |-> toks, successful_models |-> successful, load_calls |-> calls]
    ELSE LET model_index == selected[1]
             rest        == Tail(selected)
         IN  IF model_index < 0 \/ model_index >= Len(options)
             THEN LoadTokenizersAuthToo(options, rest, toks, successful, calls)
             ELSE LET model_info == options[model_index + 1]
                      called     == Append(calls, [model_index |-> model_index,
                                                   source      |-> LoadSource(model_info)])
                  IN
                  IF model_info.is_all_option
                  THEN LoadTokenizersAuthToo(options, rest, toks, successful, calls)
                  ELSE IF LoadOutcome(model_info) = "fail"
                  THEN LoadTokenizersAuthToo(options, rest, toks, successful, called)
                  ELSE LoadTokenizersAuthToo(
                         options, rest,
                         (model_index :> [model_name |-> model_info.name,
                                          kind |-> LoadOutcome(model_info)]) @@ toks,
                         Append(successful, model_index), called)

RECURSIVE LoadTokenizersAbortOnFail(_, _, _, _, _)
\* mutant: the first failed load ends the loop
LoadTokenizersAbortOnFail(options, selected, toks, successful, calls) ==
    IF selected = <<>>
    THEN [tokenizers |-> toks, successful_models |-> successful, load_calls |-> calls]
    ELSE LET model_index == selected[1]
             rest        == Tail(selected)
         IN  IF model_index < 0 \/ model_index >= Len(options)
             THEN LoadTokenizersAbortOnFail(options, rest, toks, successful, calls)
             ELSE LET model_info == options[model_index + 1]
                      called     == Append(calls, [model_index |-> model_index,
                                                   source      |-> LoadSource(model_info)])
                  IN
                  IF model_info.is_all_option \/ model_info.auth_required
                  THEN LoadTokenizersAbortOnFail(options, rest, toks, successful, calls)
                  ELSE IF LoadOutcome(model_info) = "fail"
                  THEN [tokenizers |-> toks, successful_models |-> successful,
                        load_calls |-> called]
                  ELSE LoadTokenizersAbortOnFail(
                         options, rest,
                         (model_index :> [model_name |-> model_info.name,
                                          kind |-> LoadOutcome(model_info)]) @@ toks,
                         Append(successful, model_index), called)

RECURSIVE load_tokenizers(_, _, _, _, _)
load_tokenizers(options, selected, toks, successful, calls) ==
    IF selected = <<>>
    THEN [tokenizers |-> toks, successful_models |-> successful, load_calls |-> calls]
    ELSE LET model_index == selected[1]
             rest        == Tail(selected)
         IN  IF model_index < 0 \/ model_index >= Len(options)
             THEN load_tokenizers(options, rest, toks, successful, calls)
             ELSE LET model_info == options[model_index + 1]
                      called     == Append(calls, [model_index |-> model_index,
                                                   source      |-> LoadSource(model_info)])
                  IN
                  IF model_info.is_all_option
                  THEN load_tokenizers(options, rest, toks, successful, calls)
                  ELSE IF model_info.auth_required
                  THEN load_tokenizers(options, rest, toks, successful, calls)
                  ELSE IF LoadOutcome(model_info) = "fail"
                  THEN load_tokenizers(options, rest, toks, successful, called)
                  ELSE load_tokenizers(
                         options, rest,
                         (model_index :> [model_name |-> model_info.name,
                                          kind |-> LoadOutcome(model_info)]) @@ toks,
                         Append(successful, model_index), called)

-----------------------------------------------------------------------------
(* TokenizerComparator.process_dataset                                     *)

NoTokenizers == [i \in {} |-> 0]
NoModels     == [nm \in {} |-> 0]
NoResults    == [present |-> FALSE, total_bytes |-> 0, sample_count |-> 0,
                 models |-> NoModels]

RECURSIVE SumBytes(_)
\* line 430: sum(len(text.encode('utf-8')) for text in dataset_texts)
SumBytes(ts) == IF ts = <<>> THEN 0 ELSE TextBytes(ts[1]) + SumBytes(Tail(ts))

\* lines 443-449: a zeroed counter pair for every selected index with a tokenizer
InitialCounters(selected, toks) ==
    LET names == { toks[selected[k]].model_name :
                     k \in { k \in 1..Len(selected) : selected[k] \in DOMAIN toks } }
    IN  [nm \in names |-> [total_tokens |-> 0, error_count |-> 0]]

\* lines 426-452: everything before the first sample
StartProcessing ==
    /\ pc = "account"
    /\ IF dataset_texts.texts = <<>>
       THEN /\ results' = NoResults
            /\ pc' = "returned"
       ELSE /\ results' = [present      |-> TRUE,
                           total_bytes  |-> SumBytes(dataset_texts.texts),
                           sample_count |-> Len(dataset_texts.texts),
                           models       |-> InitialCounters(successful_models, tokenizers)]
            /\ pc' = "encode"
    /\ sample_idx' = 1
    /\ model_pos' = 1
    /\ progress' = 0
    /\ UNCHANGED <<tokenizers, successful_models, load_calls, main_vars_but_pc, not_pipe>>

\* mutant: a tokenizer whose encode failed is removed from self.tokenizers
EncodeSampleDropsFailing ==
    /\ pc = "encode"
    /\ sample_idx <= Len(dataset_texts.texts)
    /\ model_pos <= Len(successful_models)
    /\ LET text        == dataset_texts.texts[sample_idx]
           model_index == successful_models[model_pos]
       IN  IF model_index \in DOMAIN tokenizers
           THEN LET model_name == tokenizers[model_index].model_name
                    tokens     == Encode(tokenizers[model_index].kind, text)
                    old        == results.models[model_name]
                IN  /\ results' =
                         [results EXCEPT !.models[model_name] =
                            IF tokens.raised
                            THEN [old EXCEPT !.error_count = old.error_count + 1]
                            ELSE [old EXCEPT !.total_tokens = old.total_tokens + tokens.n]]
                    /\ tokenizers' =
                         IF tokens.raised
                         THEN [i \in DOMAIN tokenizers \ {model_index} |-> tokenizers[i]]
                         ELSE tokenizers
           ELSE UNCHANGED <<results, tokenizers>>
    /\ model_pos' = model_pos + 1
    /\ UNCHANGED <<successful_models, load_calls, sample_idx, progress, pc,
                   main_vars_but_pc, not_pipe>>

\* mutant: a failed encode is counted as one token
EncodeSampleErrorsAsTokens ==
    /\ pc = "encode"
    /\ sample_idx <= Len(dataset_texts.texts)
    /\ model_pos <= Len(successful_models)
    /\ LET text        == dataset_texts.texts[sample_idx]
           model_index == successful_models[model_pos]
       IN  IF model_index \in DOMAIN tokenizers
           THEN LET model_name == tokenizers[model_index].model_name
                    tokens     == Encode(tokenizers[model_index].kind, text)
                    old        == results.models[model_name]
                IN  results' =
                      [results EXCEPT !.models[model_name] =
                         IF tokens.raised
                         THEN [old EXCEPT !.total_tokens = old.total_tokens + 1]
                         ELSE [old EXCEPT !.total_tokens = old.total_tokens + tokens.n]]
           ELSE UNCHANGED results
    /\ model_pos' = model_pos + 1
    /\ UNCHANGED <<tokenizers, successful_models, load_calls, sample_idx, progress, pc,
                   main_vars_but_pc, not_pipe>>

\* lines 459-468: one pass of the inner loop, one encode call
EncodeSample ==
    /\ pc = "encode"
    /\ sample_idx <= Len(dataset_texts.texts)
    /\ model_pos <= Len(successful_models)
    /\ LET text        == dataset_texts.texts[sample_idx]
           model_index == successful_models[model_pos]
       IN  IF model_index \in DOMAIN tokenizers
           THEN LET model_name == tokenizers[model_index].model_name
                    tokens     == Encode(tokenizers[model_index].kind, text)
                    old        == results.models[model_name]
                IN  results' =
                      [results EXCEPT !.models[model_name] =
                         IF tokens.raised
                         THEN [old EXCEPT !.error_count = old.error_count + 1]
                         ELSE [old EXCEPT !.total_tokens = old.total_tokens + tokens.n]]
           ELSE UNCHANGED results
    /\ model_pos' = model_pos + 1
    /\ UNCHANGED <<tokenizers, successful_models, load_calls, sample_idx, progress, pc,
                   main_vars_but_pc, not_pipe>>

\* mutant: the progress bar counts samples
UpdateProgressBySample ==
    /\ pc = "encode"
    /\ sample_idx <= Len(dataset_texts.texts)
    /\ model_pos > Len(successful_models)
    /\ progress' = progress + 1
    /\ sample_idx' = sample_idx + 1
    /\ model_pos' = 1
    /\ UNCHANGED <<tokenizers, successful_models, load_calls, results, pc, main_vars_but_pc, not_pipe>>

\* line 471: progress_bar.update(text_bytes), then the next sample
UpdateProgress ==
    /\ pc = "encode"
    /\ sample_idx <= Len(dataset_texts.texts)
    /\ model_pos > Len(successful_models)
    /\ progress' = progress + TextBytes(dataset_texts.texts[sample_idx])
    /\ sample_idx' = sample_idx + 1
    /\ model_pos' = 1
    /\ UNCHANGED <<tokenizers, successful_models, load_calls, results, pc, main_vars_but_pc, not_pipe>>

\* line 473: return results
ReturnResults ==
    /\ pc = "encode"
    /\ sample_idx > Len(dataset_texts.texts)
    /\ pc' = "returned"
    /\ UNCHANGED <<acct_vars, main_vars_but_pc, not_pipe>>

-----------------------------------------------------------------------------
(* run.py: what the user types at ask_for_restart's prompt                 *)

\* one call of input() at line 68, taken to return the text typed
NoAnswer    == [given |-> FALSE, text |-> <<>>]
Typed(text) == [given |-> TRUE,  text |-> text]

\* " Yes", "N ", "yn"
AnswerTexts == { <<32, 89, 101, 115>>, <<78, 32>>, <<121, 110>> }
PromptAnswers == { Typed(t) : t \in AnswerTexts }

\* str.lower() on the letters an answer holds
Lower(s) == [i \in DOMAIN s |-> IF s[i] \in 65..90 THEN s[i] + 32 ELSE s[i]]

\* the mutation: the answer is compared as typed, capitals included
ChoiceAsTyped(text) == Strip(text)
\* line 68: `choice = input(...).strip().lower()`
choice(text) == Lower(Strip(text))

\* line 69: ['y', 'yes'] and line 74: ['n', 'no']
YesChoices == { <<121>>, <<121, 101, 115>> }
NoChoices  == { <<110>>, <<110, 111>> }

-----------------------------------------------------------------------------
(* run.py: run_tokenizer_comparison                                        *)

NoEstimates == [nm \in {} |-> 0]
NoTotals    == [nm \in {} |-> 0]

\* what the user may type at the model prompt: up to MaxChoices numbers
\* between 0 and one past the end of the list
ChoiceLists(options) ==
    UNION { [1..k -> 0..(Len(options) + 1)] : k \in 1..MaxChoices }

\* lines 103-146: both prompts.  An invalid dataset number, a non-numeric
\* entry or an empty selection returns (None, None, None).
ChooseModels ==
    /\ pc = "choose"
    /\ \/ \E model_choices \in ChoiceLists(model_options) :
            LET selected == SelectIndices(model_options, model_choices) IN
            /\ selected_model_indices' = selected
            /\ all_chosen' = AllTyped(model_options, model_choices)
            /\ pc' = IF selected = <<>> THEN "compared" ELSE "texts"
       \/ /\ selected_model_indices' = <<>>
          /\ all_chosen' = FALSE
          /\ pc' = "compared"
    /\ answer' = NoAnswer
    /\ UNCHANGED <<model_options, dataset_texts, total_tokens_dict, estimates, attempts,
                   acct_vars, not_pipe>>

\* lines 148-153: load_dataset_texts; None or an empty list returns
\* (None, None, None)
LoadDatasetTexts ==
    /\ pc = "texts"
    /\ \E d \in {NotLoaded} \cup { [loaded |-> TRUE, texts |-> c] : c \in Corpora } :
         /\ dataset_texts' = d
         /\ pc' = IF d.texts = <<>> THEN "compared" ELSE "tokenizers"
    /\ UNCHANGED <<model_options, selected_model_indices, all_chosen, total_tokens_dict,
                   estimates, attempts, answer, acct_vars, not_pipe>>

\* lines 157-162: load_tokenizers; an empty list returns (None, None, None)
LoadTokenizers ==
    /\ pc = "tokenizers"
    /\ LET r == load_tokenizers(model_options, selected_model_indices, tokenizers, <<>>, <<>>) IN
       /\ tokenizers' = r.tokenizers
       /\ successful_models' = r.successful_models
       /\ load_calls' = r.load_calls
       /\ pc' = IF r.successful_models = <<>> THEN "compared" ELSE "account"
    /\ UNCHANGED <<results, sample_idx, model_pos, progress, main_vars_but_pc, not_pipe>>

\* lines 168-182: the per-model totals taken from results
CollectTotals ==
    /\ pc = "returned"
    /\ total_tokens_dict' =
         LET names == { tokenizers[successful_models[k]].model_name :
                          k \in { k \in 1..Len(successful_models) :
                                    successful_models[k] \in DOMAIN tokenizers } }
         IN  [nm \in names \cap DOMAIN results.models |-> results.models[nm].total_tokens]
    /\ pc' = "compared"
    /\ UNCHANGED <<model_options, selected_model_indices, all_chosen, dataset_texts,
                   estimates, attempts, answer, acct_vars, not_pipe>>

-----------------------------------------------------------------------------
(* TrainingTimeEstimator.running_train, TrainingTimeEstimator.py           *)

\* the menu entries and epoch counts the user answers with
TrainGpus     == {"NVIDIA H100", "NVIDIA RTX 4090"}
TrainClusters == {"single", "single_node", "8_nodes"}

\* mutant: the product with epochs is handed on together with epochs
TrainLineEpochsTwice(total_tokens, gpu_choice, cluster_choice, epochs) ==
    LET total_training_tokens == total_tokens * epochs
        r == estimate_training_time(total_training_tokens, gpu_choice, cluster_choice, epochs)
    IN  [token_count |-> total_training_tokens,
         epochs      |-> epochs,
         raised      |-> r.raised,
         seconds     |-> r.seconds,
         text        |-> IF r.raised THEN <<>> ELSE format_time(r.seconds).text,
         total_training_tokens |-> total_training_tokens]

\* lines 117-132: one model's line of the report; an exception prints an
\* error line instead
TrainLine(total_tokens, gpu_choice, cluster_choice, epochs) ==
    LET total_training_tokens == total_tokens * epochs
        r == estimate_training_time(total_training_tokens, gpu_choice, cluster_choice, 1)
    IN  [token_count |-> total_training_tokens,
         epochs      |-> 1,
         raised      |-> r.raised,
         seconds     |-> r.seconds,
         text        |-> IF r.raised THEN <<>> ELSE format_time(r.seconds).text,
         total_training_tokens |-> total_training_tokens]

\* lines 89-134
running_train(totals, gpu_choice, cluster_choice, epochs) ==
    [nm \in DOMAIN totals |-> TrainLine(totals[nm], gpu_choice, cluster_choice, epochs)]

-----------------------------------------------------------------------------
(* TrainingTimeEstimator.running_train, tempCodeRunnerFile.py              *)

\* lines 145-161: one model's line of the report
TrainLineCfg(total_tokens, model_configs, model_name, method, epochs) ==
    LET total_training_tokens == total_tokens * epochs
        r == estimate_training_time_cfg(total_tokens, model_configs, model_name, method, epochs)
    IN  [token_count |-> total_tokens,
         epochs      |-> epochs,
         raised      |-> r.raised,
         seconds     |-> r.seconds,
         text        |-> IF r.raised THEN <<>> ELSE format_time(r.seconds).text,
         total_training_tokens |-> total_training_tokens]

\* lines 123-163
running_train_cfg(totals, model_configs, method, epochs) ==
    [nm \in DOMAIN totals |-> TrainLineCfg(totals[nm], model_configs, nm, method, epochs)]

\* the answers to running_train's prompts, held in est_in: a GPU and a cluster
\* (TrainingTimeEstimator.py) or a fine-tuning method (tempCodeRunnerFile.py),
\* and an epoch count > 0
TrainAnswers ==
    { [variant |-> "gpu", token_count |-> 0, who |-> g, how |-> c, epochs |-> e] :
        g \in TrainGpus, c \in TrainClusters, e \in 1..MaxEpochs }
    \cup
    { [variant |-> "cfg", token_count |-> 0, who |-> "", how |-> m, epochs |-> e] :
        m \in {"full", "lora"}, e \in 1..MaxEpochs }

\* the per-model totals running_train is called with
TrainTotals ==
    UNION { [S -> TokenCounts] : S \in {{"M4"}, {"M4", "M16"}, {"M16", "Other"}} }

\* one call of running_train(total_tokens_dict)
RunningTrain ==
    /\ pc = "estimate"
    /\ est_in \in TrainAnswers
    /\ estimates' =
         IF est_in.variant = "gpu"
         THEN running_train(total_tokens_dict, est_in.who, est_in.how, est_in.epochs)
         ELSE running_train_cfg(total_tokens_dict, EstimatorConfig, est_in.how, est_in.epochs)
    /\ pc' = "prompt"
    /\ UNCHANGED <<model_options, selected_model_indices, all_chosen, dataset_texts,
                   total_tokens_dict, attempts, answer, acct_vars, not_pipe>>

TrainInit ==
    /\ est_in \in TrainAnswers
    /\ est_out = EstIdleOut
    /\ fmt_in = NoDuration
    /\ fmt_out = FmtIdleOut
    /\ model_options = <<>>
    /\ pc = "estimate"
    /\ selected_model_indices = <<>>
    /\ all_chosen = FALSE
    /\ dataset_texts = NotLoaded
    /\ tokenizers = NoTokenizers
    /\ successful_models = <<>>
    /\ load_calls = <<>>
    /\ results = NoResults
    /\ sample_idx = 1
    /\ model_pos = 1
    /\ progress = 0
    /\ total_tokens_dict \in TrainTotals
    /\ estimates = NoEstimates
    /\ attempts = 0
    /\ answer = NoAnswer

TrainNext == RunningTrain

-----------------------------------------------------------------------------
(* run.py: main and ask_for_restart                                        *)

\* line 278: `if not results or not total_tokens_dict`
ComparisonFailed == ~results.present \/ DOMAIN total_tokens_dict = {}

\* the mutation: the estimation is started whatever the comparison returned
CheckComparisonSkipped ==
    /\ pc = "compared"
    /\ pc' = "estimate"
    /\ UNCHANGED <<acct_vars, main_vars_but_pc, not_pipe>>

\* lines 278-287: the check after run_tokenizer_comparison returned
CheckComparison ==
    /\ pc = "compared"
    /\ pc' = IF ComparisonFailed THEN "prompt" ELSE "estimate"
    /\ UNCHANGED <<acct_vars, main_vars_but_pc, not_pipe>>

\* lines 289-300: run_training_time_estimation, with the answers the user
\* gives to running_train's prompts (each prompt repeats until valid)
RunTrainingTimeEstimation ==
    /\ pc = "estimate"
    /\ \E gpu_choice \in TrainGpus, cluster_choice \in TrainClusters, epochs \in 1..MaxEpochs :
         estimates' = running_train(total_tokens_dict, gpu_choice, cluster_choice, epochs)
    /\ pc' = "prompt"
    /\ UNCHANGED <<model_options, selected_model_indices, all_chosen, dataset_texts,
                   total_tokens_dict, attempts, answer, acct_vars, not_pipe>>

\* ask_for_restart, line 63
max_attempts == 3

\* lines 66-68, 77-79 and 87: one pass of ask_for_restart's loop in which the
\* answer is neither yes nor no: it counts as an attempt; after max_attempts
\* of them ask_for_restart returns False and main leaves its loop (lines
\* 281-282, 303-307, 312-315)
AskAgain ==
    /\ pc = "prompt"
    /\ attempts < max_attempts
    /\ \E a \in PromptAnswers :
         /\ choice(a.text) \notin (YesChoices \cup NoChoices)
         /\ answer' = a
    /\ attempts' = attempts + 1
    /\ pc' = IF attempts + 1 < max_attempts THEN "prompt" ELSE "exit"
    /\ UNCHANGED <<model_options, selected_model_indices, all_chosen, dataset_texts,
                   total_tokens_dict, estimates, acct_vars, not_pipe>>

\* lines 69-73 and 262-269: "y" or "yes": ask_for_restart returns True and
\* the loop starts over with a new TokenizerComparator
Restart ==
    /\ pc = "prompt"
    /\ attempts < max_attempts
    /\ \E a \in PromptAnswers :
         /\ choice(a.text) \in YesChoices
         /\ answer' = a
    /\ pc' = "choose"
    /\ selected_model_indices' = <<>>
    /\ all_chosen' = FALSE
    /\ dataset_texts' = NotLoaded
    /\ tokenizers' = NoTokenizers
    /\ successful_models' = <<>>
    /\ load_calls' = <<>>
    /\ results' = NoResults
    /\ sample_idx' = 1
    /\ model_pos' = 1
    /\ progress' = 0
    /\ total_tokens_dict' = NoTotals
    /\ estimates' = NoEstimates
    /\ attempts' = 0
    /\ UNCHANGED <<model_options, not_pipe>>

\* lines 74-76 and 281-282, 303-307, 312-315: "n" or "no": ask_for_restart
\* returns False and main leaves its loop
Quit ==
    /\ pc = "prompt"
    /\ attempts < max_attempts
    /\ \E a \in PromptAnswers :
         /\ choice(a.text) \in NoChoices
         /\ answer' = a
    /\ pc' = "exit"
    /\ UNCHANGED <<acct_vars, model_options, selected_model_indices, all_chosen, dataset_texts,
                   total_tokens_dict, estimates, attempts, not_pipe>>

\* lines 309-312: an exception raised before run_tokenizer_comparison got to
\* the dataset (TokenizerComparator() re-raising load_config's error at line
\* 269, a menu entry without a name at lines 105 and 126, input() failing at
\* line 108) is caught by the loop's handler, which asks for a restart
IterationRaises ==
    /\ pc = "choose"
    /\ pc' = "prompt"
    /\ answer' = NoAnswer
    /\ UNCHANGED <<acct_vars, model_options, selected_model_indices, all_chosen, dataset_texts,
                   total_tokens_dict, estimates, attempts, not_pipe>>

PipeInit ==
    /\ model_options \in ModelTables
    /\ pc = "choose"
    /\ selected_model_indices = <<>>
    /\ all_chosen = FALSE
    /\ dataset_texts = NotLoaded
    /\ tokenizers = NoTokenizers
    /\ successful_models = <<>>
    /\ load_calls = <<>>
    /\ results = NoResults
    /\ sample_idx = 1
    /\ model_pos = 1
    /\ progress = 0
    /\ total_tokens_dict = NoTotals
    /\ estimates = NoEstimates
    /\ attempts = 0
    /\ answer = NoAnswer

PipeIdle ==
    /\ model_options = <<>>
    /\ pc = "exit"
    /\ selected_model_indices = <<>>
    /\ all_chosen = FALSE
    /\ dataset_texts = NotLoaded
    /\ tokenizers = NoTokenizers
    /\ successful_models = <<>>
    /\ load_calls = <<>>
    /\ results = NoResults
    /\ sample_idx = 1
    /\ model_pos = 1
    /\ progress = 0
    /\ total_tokens_dict = NoTotals
    /\ estimates = NoEstimates
    /\ attempts = 0
    /\ answer = NoAnswer

\* load_tokenizers and process_dataset as methods of TokenizerComparator:
\* load_tokenizers takes any list of indices (its parameter, line 341), and
\* the calls follow one another as in lines 556-563
IndexLists(options) ==
    UNION { [1..k -> (0 - 1)..Len(options)] : k \in 1..MaxChoices }

ComparatorInit ==
    /\ model_options \in ModelTables
    /\ pc = "tokenizers"
    /\ selected_model_indices \in IndexLists(model_options)
    /\ all_chosen = FALSE
    /\ dataset_texts \in { [loaded |-> TRUE, texts |-> c] : c \in Corpora \ {<<>>} }
    /\ tokenizers = NoTokenizers
    /\ successful_models = <<>>
    /\ load_calls = <<>>
    /\ results = NoResults
    /\ sample_idx = 1
    /\ model_pos = 1
    /\ progress = 0
    /\ total_tokens_dict = NoTotals
    /\ estimates = NoEstimates
    /\ attempts = 0
    /\ answer = NoAnswer

ComparatorNext ==
    \/ LoadTokenizers
    \/ StartProcessing
    \/ EncodeSample
    \/ UpdateProgress
    \/ ReturnResults

\* mutant: the caller does not test what load_dataset_texts returned
ReturnDatasetTextsUnchecked ==
    /\ pc = "texts"
    /\ load_state \in {"returned", "failed"}
    /\ dataset_texts' = IF load_state = "returned" THEN [loaded |-> TRUE, texts |-> texts]
                        ELSE NotLoaded
    /\ pc' = "tokenizers"
    /\ UNCHANGED <<model_options, selected_model_indices, all_chosen, total_tokens_dict,
                   estimates, attempts, answer, acct_vars, not_pipe>>

\* run_tokenizer_comparison from its dataset step on (run.py lines 148-166),
\* with the dataset read from `file` by _load_local_dataset.  The dataset
\* descriptor names a local_path only, so load_dataset_texts returns what
\* _load_local_dataset returns, or None when the path does not exist
\* (TokenizerComparator.py lines 316-331).
ReturnDatasetTexts ==
    /\ pc = "texts"
    /\ load_state \in {"returned", "failed"}
    /\ LET d == IF load_state = "returned" THEN [loaded |-> TRUE, texts |-> texts]
                ELSE NotLoaded
       IN  /\ dataset_texts' = d
           /\ pc' = IF d.texts = <<>> THEN "compared" ELSE "tokenizers"
    /\ UNCHANGED <<model_options, selected_model_indices, all_chosen, total_tokens_dict,
                   estimates, attempts, answer, acct_vars, not_pipe>>

\* the selections a single typed number gives
SingleChoices(options) ==
    { SelectIndices(options, <<c>>) : c \in 1..Len(options) } \ {<<>>}

DatasetInit ==
    /\ file \in Files
    /\ line_count = 0
    /\ error_count = 0
    /\ texts = <<>>
    /\ load_state = "idle"
    /\ model_options \in ModelTables
    /\ pc = "texts"
    /\ selected_model_indices \in SingleChoices(model_options)
    /\ all_chosen = FALSE
    /\ dataset_texts = NotLoaded
    /\ tokenizers = NoTokenizers
    /\ successful_models = <<>>
    /\ load_calls = <<>>
    /\ results = NoResults
    /\ sample_idx = 1
    /\ model_pos = 1
    /\ progress = 0
    /\ total_tokens_dict = NoTotals
    /\ estimates = NoEstimates
    /\ attempts = 0
    /\ answer = NoAnswer

DatasetNext ==
    \/ OpenDataset
    \/ ReadLine
    \/ ReturnTexts
    \/ ReturnDatasetTexts
    \/ LoadTokenizers
    \/ StartProcessing
    \/ EncodeSample
    \/ UpdateProgress
    \/ ReturnResults

Next ==
    \/ ChooseModels
    \/ LoadDatasetTexts
    \/ LoadTokenizers
    \/ StartProcessing
    \/ EncodeSample
    \/ UpdateProgress
    \/ ReturnResults
    \/ CollectTotals
    \/ CheckComparison
    \/ RunTrainingTimeEstimation
    \/ AskAgain
    \/ Restart
    \/ Quit
    \/ IterationRaises

-----------------------------------------------------------------------------
(* Specifications                                                          *)

InitExtract  == ExtractInit /\ LoadIdle /\ EstimateIdle /\ ScaleIdle /\ PipeIdle
InitLoad     == LoadInit /\ ExtractIdle /\ EstimateIdle /\ ScaleIdle /\ PipeIdle
InitEstimate == EstimateInit /\ ExtractIdle /\ LoadIdle /\ ScaleIdle /\ PipeIdle
InitScale    == ScaleInit /\ ExtractIdle /\ LoadIdle /\ EstimateIdle /\ PipeIdle

InitComparator == ComparatorInit /\ ExtractIdle /\ LoadIdle /\ EstimateIdle /\ ScaleIdle
InitDataset  == DatasetInit /\ ExtractIdle /\ EstimateIdle /\ ScaleIdle
InitTrain    == TrainInit /\ ExtractIdle /\ LoadIdle /\ ScaleIdle

SpecExtract  == InitExtract /\ [][ExtractNext]_vars
SpecLoad     == InitLoad /\ [][LoadNext]_vars
SpecEstimate == InitEstimate /\ [][EstimateNext]_vars
SpecScale    == InitScale /\ [][ScaleNext]_vars
SpecComparator == InitComparator /\ [][ComparatorNext]_vars
SpecDataset  == InitDataset /\ [][DatasetNext]_vars
SpecTrain    == InitTrain /\ [][TrainNext]_vars

\* one session of run.py
Init == PipeInit /\ ExtractIdle /\ LoadIdle /\ EstimateIdle /\ ScaleIdle
Spec == Init /\ [][Next]_vars

-----------------------------------------------------------------------------
(* Properties of the sample extractor                                      *)

\* number of lines that are non-empty after stripping
RECURSIVE NonEmptyLines(_)
NonEmptyLines(ls) ==
    IF ls = <<>> THEN 0
    ELSE (IF Strip(ls[1].raw) # <<>> THEN 1 ELSE 0) + NonEmptyLines(Tail(ls))

\* C3 (as claimed): for every existing .jsonl file the load returns a list with
\* one sample per line that is non-empty after stripping; no line makes the
\* whole file fail.
C3_OneSamplePerNonEmptyLine ==
    (file.exists /\ file.ext = "jsonl") =>
        /\ load_state # "failed"
        /\ load_state = "returned" => Len(texts) = NonEmptyLines(file.lines)

\* the instruction / input / output values that are non-empty, stringified, in
\* that order and newline-joined
TripleConcat(rec) ==
    LET vals == <<Get(rec, "instruction"), Get(rec, "input"), Get(rec, "output")>>
        kept == SelectSeq(vals, Truthy)
    IN  Join([i \in 1..Len(kept) |-> PyStr(kept[i])], NL)

HasTripleAndText(rec) ==
    rec.t = "dict" /\ \A k \in {"instruction", "input", "output", "text"} : HasKey(rec, k)

AllTripleEmpty(rec) ==
    \A k \in {"instruction", "input", "output"} : ~Truthy(Get(rec, k))

\* C4 (as claimed): for every record with instruction, input, output and text
\* present, with any values, the result is the newline-joined concatenation of
\* the non-empty instruction, input, output values and never the text field.
C4_TripleAlwaysWins ==
    (extracted # NotCalled /\ HasTripleAndText(item)) =>
        extracted = RetStr(TripleConcat(item))

\* C4 (amended): the triple concatenation is returned whenever at least one of
\* the three values is non-empty, whatever the text field holds; when all three
\* are empty the record falls through to the field scan, which returns a
\* non-empty string-valued text field.
C4_TripleWinsWhenNonEmpty ==
    (extracted # NotCalled /\ HasTripleAndText(item)) =>
        /\ ~AllTripleEmpty(item) => extracted = RetStr(TripleConcat(item))
        /\ (AllTripleEmpty(item) /\ Get(item, "text").t = "str"
               /\ Truthy(Get(item, "text")))
             => extracted = RetStr(Get(item, "text").s)

C4_Witness ==
    /\ extracted # NotCalled
    /\ HasTripleAndText(item)
    /\ item.keys[1] = "text"
    /\ Get(item, "text") = JStr(T_a)
    /\ Get(item, "instruction") = JStr(T_b)
    /\ Get(item, "input") = JStr(EMPTY)
    /\ Get(item, "output") = JNum(5)
    /\ extracted = RetStr(T_b \o NL \o <<53>>)

-----------------------------------------------------------------------------
(* Properties of the duration estimator                                    *)

EstReturned == est_out.called /\ ~est_out.raised

\* the rational n / d, d # 0, in lowest terms with a positive denominator
Ratio(n, d) == IF d > 0 THEN Norm(<<n, d>>) ELSE Norm(<<0 - n, 0 - d>>)

\* the worked example: throughput 100, world_size 4, 120000 tokens, one epoch
C5_Example ==
    [variant |-> "cfg", token_count |-> 120000, who |-> "M4", how |-> "full",
     epochs |-> 1]

\* C5 (as claimed): seconds = token_count * epochs / (throughput * worker_count)
\* with no efficiency discount, and the worked example is 300 seconds, rendered
\* as 5 minutes with no seconds part.
C5_NoEfficiencyDiscount ==
    /\ EstReturned =>
         est_out.seconds = Norm(<<est_in.token_count * est_in.epochs,
                                  est_out.throughput * est_out.world_size>>)
    /\ (est_in = C5_Example /\ fmt_out # FmtIdleOut) =>
         /\ est_out.seconds = <<300, 1>>
         /\ fmt_out.parts = <<[n |-> 5, unit |-> "minutes"]>>

\* C5 (amended): both estimators divide by throughput * worker_count * efficiency,
\* the efficiency being 0.95 for one worker, 0.85 for 2 to 8 workers and 0.65
\* above; the worked example is 120000 / 340 = 6000/17 seconds, rendered as
\* 5 minutes 52 seconds.
C5_EfficiencyDiscounted ==
    /\ EstReturned =>
         LET hundredths == IF est_out.world_size = 1 THEN 95
                           ELSE IF est_out.world_size <= 8 THEN 85 ELSE 65
         IN  est_out.seconds =
               Ratio(est_in.token_count * est_in.epochs * 100,
                     est_out.throughput * est_out.world_size * hundredths)
    /\ (est_in = C5_Example /\ fmt_out # FmtIdleOut) =>
         /\ est_out.seconds = <<6000, 17>>
         /\ fmt_out.parts = <<[n |-> 5, unit |-> "minutes"], [n |-> 52, unit |-> "seconds"]>>

C5_Witness ==
    /\ est_in = C5_Example
    /\ EstReturned
    /\ est_out.world_size = 4 /\ est_out.throughput = 100
    /\ fmt_out.text = <<53, 20998, 38047, 32, 53, 50, 31186>>

UnitRank(u) ==
    CASE u = "days" -> 1 [] u = "hours" -> 2 [] u = "minutes" -> 3 [] u = "seconds" -> 4

\* C10 (as claimed): for every duration >= 0, fractional ones included,
\* format_time lists the units in descending order, omits every unit whose
\* displayed value is zero, and renders the zero-seconds text exactly when
\* every unit is zero.
C10_ZeroUnitsOmitted ==
    (fmt_out # FmtIdleOut /\ fmt_in[1] >= 0) =>
        LET p == fmt_out.parts IN
        /\ p # <<>>
        /\ \A i, j \in 1..Len(p) : i < j => UnitRank(p[i].unit) < UnitRank(p[j].unit)
        /\ (\A i \in 1..Len(p) : p[i].n > 0) \/ p = ZeroParts
        /\ p = ZeroParts <=> Whole(fmt_in) = 0
        /\ fmt_out.text = RenderParts(p)

-----------------------------------------------------------------------------
(* Properties of the corpus scaler                                         *)

\* C7: for sizes M > 0 and T2 > 0, scale(scale(T, M, T2), T2, M) never exceeds
\* T for any model and falls short of it by no more than the two truncations
\* lose: less than one target unit (M / T2 tokens) plus less than one token.
C7_RoundTripUpToTruncation ==
    scale_back.status = "ok" =>
        \A m \in ScaleModels :
            LET t  == scale_in.table[m]
                rt == scale_back.table[m]
            IN  /\ rt <= t
                /\ (t - rt) * scale_in.target_size
                     <= scale_in.measured_size + scale_in.target_size - 2

C7_Witness ==
    /\ scale_back.status = "ok"
    /\ scale_in.measured_size = 3 /\ scale_in.target_size = 2
    /\ scale_in.table["A"] = 5 /\ scale_out.table["A"] = 3 /\ scale_back.table["A"] = 4
    /\ scale_in.table["B"] = 6 /\ scale_back.table["B"] = 6

\* C8: scale fails with InvalidSize, handing back no table, exactly when
\* target_size <= 0 or measured_size <= 0.
C8_InvalidSize ==
    scale_out # ScaleNotCalled =>
        /\ scale_out.status = "InvalidSize"
             <=> (scale_in.target_size <= 0 \/ scale_in.measured_size <= 0)
        /\ scale_out.status = "InvalidSize" => scale_out.table = NoTable
        /\ scale_out.status = "ok" => DOMAIN scale_out.table = ScaleModels

C8_Witness ==
    /\ scale_out.status = "InvalidSize"
    /\ scale_in.measured_size = 0
    /\ scale_in.target_size = 2
    /\ scale_out.table = NoTable

-----------------------------------------------------------------------------
(* Properties of the tokenization accountant and of the run.py pipeline    *)

\* UTF-8 byte length of a list of samples, counted code point by code point
RECURSIVE Utf8Total(_)
Utf8Total(ts) ==
    IF ts = <<>> THEN 0
    ELSE IF ts[1] = <<>> THEN Utf8Total(Tail(ts))
    ELSE Utf8Len(ts[1][1]) + Utf8Total(<<Tail(ts[1])>> \o Tail(ts))

\* C1: for every non-empty sample list and every set of loaded tokenizers,
\* total_bytes is the sum of the samples' UTF-8 byte lengths and sample_count
\* their number; both are set before the first encode call and keep their
\* value through every later step, whichever encode calls raise.
C1_BytesAndCountFixed ==
    /\ pc = "encode" => results.present
    /\ results.present =>
         /\ dataset_texts.texts # <<>>
         /\ results.total_bytes = Utf8Total(dataset_texts.texts)
         /\ results.sample_count = Len(dataset_texts.texts)

C1_Witness ==
    /\ pc = "returned"
    /\ results.present
    /\ dataset_texts.texts = <<T_zh, T_a>>
    /\ results.total_bytes = 7
    /\ results.sample_count = 2
    /\ DOMAIN results.models = {"A", "B"}
    /\ results.models["B"].error_count = 2
    /\ results.models["A"].total_tokens = 3

\* the tokenizer raises on every sample of the corpus
FailsEverywhere(kind) ==
    \A k \in 1..Len(dataset_texts.texts) : Encode(kind, dataset_texts.texts[k]).raised

\* the tokens a tokenizer yields over the corpus when run on its own
RECURSIVE OwnTotal(_, _)
OwnTotal(kind, ts) ==
    IF ts = <<>> THEN 0
    ELSE (IF Encode(kind, ts[1]).raised THEN 0 ELSE Encode(kind, ts[1]).n)
         + OwnTotal(kind, Tail(ts))

\* C2 (as claimed): when process_dataset has returned, a loaded tokenizer that
\* raised on every sample has error_count = sample_count and total_tokens = 0,
\* and every other loaded tokenizer has the total it yields on its own.
C2_FailingTokenizerIsolated ==
    (pc = "returned" /\ results.present) =>
        \A i \in DOMAIN tokenizers :
            LET mine == results.models[tokenizers[i].model_name] IN
            IF FailsEverywhere(tokenizers[i].kind)
            THEN mine.error_count = results.sample_count /\ mine.total_tokens = 0
            ELSE (\E j \in DOMAIN tokenizers : FailsEverywhere(tokenizers[j].kind))
                   => mine.total_tokens = OwnTotal(tokenizers[i].kind, dataset_texts.texts)

\* the entries "all models" stands for: not a placeholder, not auth_required,
\* and the one load attempt made for them succeeds
Eligible ==
    { i \in 0..(Len(model_options) - 1) :
        LET m == model_options[i + 1] IN
        /\ ~m.is_all_option
        /\ ~m.auth_required
        /\ IF m.local = "exists" THEN m.local_tok # "fail" ELSE m.remote_tok # "fail" }

Range(f) == { f[x] : x \in DOMAIN f }

\* C6: when the typed selection names the "all models" entry, alone or with
\* other numbers, the loaded tokenizers and the models of the accounting
\* result are exactly the entries that are no placeholder, need no
\* authentication and load; the placeholder is never among them.
C6_AllOptionExpands ==
    (all_chosen /\ pc \notin {"choose", "texts", "tokenizers"}) =>
        /\ dataset_texts.texts # <<>> =>
             /\ DOMAIN tokenizers = Eligible
             /\ Range(successful_models) = Eligible
        /\ results.present =>
             DOMAIN results.models = { model_options[i + 1].name : i \in Eligible }
        /\ \A i \in DOMAIN tokenizers : ~model_options[i + 1].is_all_option

C6_Witness ==
    /\ all_chosen
    /\ pc = "returned"
    /\ results.present
    /\ Len(model_options) = 5
    /\ DOMAIN tokenizers = {0, 3, 4}
    /\ DOMAIN results.models = {"A", "B"}

\* C9 (as claimed): running_train never hands estimate_training_time a token
\* count <= 0, and no reported duration is an error or negative.
C9_ZeroTokensNeverEstimated ==
    \A nm \in DOMAIN estimates :
        /\ estimates[nm].token_count > 0
        /\ ~estimates[nm].raised
        /\ estimates[nm].seconds[1] >= 0

-----------------------------------------------------------------------------
(* Properties of the configuration-driven estimator's input checks         *)

\* the entries of the configuration a lookup of `name` may use
RealEntries(name) ==
    { i \in 1..Len(EstimatorConfig) :
        EstimatorConfig[i].name = name /\ ~EstimatorConfig[i].is_all_option }

CfgCalled == est_in.variant = "cfg" /\ est_out.called

\* C11: estimate_training_time raises when no descriptor has the given name or
\* the only descriptors with it are is_all_option placeholders, and a returned
\* duration always carries the figures of a non-placeholder entry.
C11_UnknownModelFails ==
    CfgCalled =>
        /\ RealEntries(est_in.who) = {} => est_out.raised
        /\ ~est_out.raised =>
             \E i \in RealEntries(est_in.who) :
                 LET mc == EstimatorConfig[i].methods[est_in.how] IN
                 /\ mc.present
                 /\ mc.throughput = est_out.throughput
                 /\ mc.world_size = est_out.world_size

C11_Witness ==
    /\ CfgCalled
    /\ est_in.who = "ALL" /\ est_in.how = "full"
    /\ \E i \in 1..Len(EstimatorConfig) :
          EstimatorConfig[i].name = "ALL" /\ EstimatorConfig[i].methods["full"].present
    /\ est_out.raised

\* C12 (as claimed): for a known model the call raises when the descriptor has
\* no entry for the method or the entry's throughput is <= 0, and whenever it
\* returns, throughput > 0 and seconds >= 0 (token_count >= 0, epochs >= 0).
C12_MethodAndThroughputChecked ==
    (CfgCalled /\ RealEntries(est_in.who) # {}) =>
        LET first == CHOOSE i \in RealEntries(est_in.who) :
                       \A j \in RealEntries(est_in.who) : i <= j
            mc    == EstimatorConfig[first].methods[est_in.how]
        IN  /\ ~mc.present => est_out.raised
            /\ mc.throughput <= 0 => est_out.raised
            /\ ~est_out.raised =>
                 /\ est_out.throughput > 0
                 /\ (est_in.token_count >= 0 /\ est_in.epochs >= 0)
                      => est_out.seconds[1] >= 0

\* ---------------------------------------------------------------------------
\* Properties of load_tokenizers called with arbitrary index lists
\* ---------------------------------------------------------------------------

LoadReturned == pc \in {"account", "encode", "returned", "compared"}

InTable(model_index) == model_index >= 0 /\ model_index < Len(model_options)

Flagged(model_index) ==
    /\ InTable(model_index)
    /\ \/ model_options[model_index + 1].is_all_option
       \/ model_options[model_index + 1].auth_required

Loadable(model_index) == InTable(model_index) /\ ~Flagged(model_index)

CalledFor(model_index) ==
    \E k \in 1..Len(load_calls) : load_calls[k].model_index = model_index

\* C13: an is_all_option or auth_required entry is never passed to the loader,
\* never registered in tokenizers and never returned as loaded, whatever the
\* selected indices and whatever its local_path; and once load_tokenizers has
\* returned, every other selected entry of the table has been attempted.
C13_FlaggedEntriesSkipped ==
    /\ \A i \in 0..(Len(model_options) - 1) :
         Flagged(i) => /\ ~CalledFor(i)
                       /\ i \notin DOMAIN tokenizers
                       /\ i \notin Range(successful_models)
    /\ LoadReturned =>
         \A k \in 1..Len(selected_model_indices) :
            Loadable(selected_model_indices[k]) => CalledFor(selected_model_indices[k])

\* a placeholder and an auth_required entry, both with an existing local_path,
\* selected before an ordinary entry that is then loaded
C13_Witness ==
    /\ LoadReturned
    /\ Len(selected_model_indices) = 3
    /\ InTable(selected_model_indices[1])
    /\ model_options[selected_model_indices[1] + 1].is_all_option
    /\ model_options[selected_model_indices[1] + 1].local = "exists"
    /\ InTable(selected_model_indices[2])
    /\ model_options[selected_model_indices[2] + 1].auth_required
    /\ model_options[selected_model_indices[2] + 1].local = "exists"
    /\ ~model_options[selected_model_indices[2] + 1].is_all_option
    /\ Loadable(selected_model_indices[3])
    /\ successful_models = <<selected_model_indices[3]>>
    /\ Len(load_calls) = 1

RECURSIVE ExpectedCalls(_, _)
ExpectedCalls(options, selected) ==
    IF selected = <<>> THEN <<>>
    ELSE LET i == selected[1]
         IN  IF i >= 0 /\ i < Len(options)
                /\ ~options[i + 1].is_all_option /\ ~options[i + 1].auth_required
             THEN <<[model_index |-> i,
                     source |-> IF options[i + 1].local = "exists"
                                THEN "local" ELSE "remote"]>>
                  \o ExpectedCalls(options, Tail(selected))
             ELSE ExpectedCalls(options, Tail(selected))

\* C14: once load_tokenizers has returned, the loader has been called exactly
\* once for each selected loadable entry, in selection order, from the local
\* path when the entry's local_path exists on disk and from the remote name
\* otherwise; an entry whose local load failed is not loaded from the remote.
C14_OneLoadPerEntry ==
    LoadReturned =>
        /\ load_calls = ExpectedCalls(model_options, selected_model_indices)
        /\ \A k \in 1..Len(load_calls) :
             LET info == model_options[load_calls[k].model_index + 1]
             IN  load_calls[k].source = "local" /\ info.local_tok = "fail"
                 => load_calls[k].model_index \notin DOMAIN tokenizers

\* a failed local load next to a remote load of an entry whose local_path is
\* named but missing on disk
C14_Witness ==
    /\ LoadReturned
    /\ \E k \in 1..Len(load_calls) :
         LET info == model_options[load_calls[k].model_index + 1]
         IN  /\ load_calls[k].source = "local"
             /\ info.local_tok = "fail"
             /\ info.remote_tok # "fail"
             /\ load_calls[k].model_index \notin DOMAIN tokenizers
    /\ \E k \in 1..Len(load_calls) :
         /\ load_calls[k].source = "remote"
         /\ model_options[load_calls[k].model_index + 1].local = "missing"
         /\ load_calls[k].model_index \in DOMAIN tokenizers

LoadFails(model_index) == LoadOutcome(model_options[model_index + 1]) = "fail"

RECURSIVE SucceededIn(_)
\* the indices of the attempted loads that did not raise, in order of attempt
SucceededIn(calls) ==
    IF calls = <<>> THEN <<>>
    ELSE (IF LoadFails(calls[1].model_index) THEN <<>> ELSE <<calls[1].model_index>>)
         \o SucceededIn(Tail(calls))

\* C15: once load_tokenizers has returned, every selected loadable entry has
\* been attempted, whether or not an earlier load failed; the list returned
\* holds exactly the indices whose load succeeded, in order; an entry whose load
\* failed has no tokenizer; and every model of the accounting result is the
\* name of a loaded tokenizer, so a failed load contributes no entry to it.
C15_FailedLoadExcludesOnlyItself ==
    LoadReturned =>
        /\ \A k \in 1..Len(selected_model_indices) :
             Loadable(selected_model_indices[k]) => CalledFor(selected_model_indices[k])
        /\ successful_models = SucceededIn(load_calls)
        /\ DOMAIN tokenizers = Range(SucceededIn(load_calls))
        /\ \A k \in 1..Len(load_calls) :
             LoadFails(load_calls[k].model_index)
             => /\ load_calls[k].model_index \notin DOMAIN tokenizers
                /\ load_calls[k].model_index \notin Range(successful_models)
        /\ results.present =>
             DOMAIN results.models =
                { tokenizers[i].model_name : i \in Range(successful_models) }

\* a load that failed, a later entry that was loaded and counted, and a
\* result that holds the later entry only
C15_Witness ==
    /\ pc = "returned"
    /\ results.present
    /\ Len(load_calls) = 2
    /\ LoadFails(load_calls[1].model_index)
    /\ successful_models = <<load_calls[2].model_index>>
    /\ DOMAIN results.models = {model_options[load_calls[2].model_index + 1].name}
    /\ model_options[load_calls[1].model_index + 1].name \notin DOMAIN results.models

\* ---------------------------------------------------------------------------
\* Properties of the two structured file modes and of the path checks
\* ---------------------------------------------------------------------------

Malformed(ln) == ~ln.decoded /\ Strip(ln.raw) # <<>>

\* C16 (as claimed): in a .jsonl file, once a non-empty line that is no JSON has
\* been read, the load has not failed, the lines read so far have given one
\* sample per non-empty line, and the sample of the malformed line is the text
\* of that line as it stands in the file (without its line terminator).
C16_MalformedLineKeptVerbatim ==
    (file.exists /\ file.ext = "jsonl") =>
        \A i \in 1..line_count :
            Malformed(file.lines[i]) =>
                /\ load_state # "failed"
                /\ Len(texts) = NonEmptyLines(SubSeq(file.lines, 1, line_count))
                /\ texts[NonEmptyLines(SubSeq(file.lines, 1, i))] = SplitLine(file.lines[i].raw)

\* what one element of a document contributes when it is extracted on its own
ElementSample(v) ==
    LET text == _extract_text_from_json(v)
    IN  IF RetTruthy(text) THEN <<text.text>> ELSE <<>>

RECURSIVE ElementSamples(_)
ElementSamples(data) ==
    IF data = <<>> THEN <<>> ELSE ElementSample(data[1]) \o ElementSamples(Tail(data))

\* C17 (as claimed): for a .json file that holds a JSON value, a top-level list
\* returns the samples of its elements, each extracted on its own and in order;
\* a top-level object gives at most one sample; every other top-level value
\* makes the load fail.
C17_ElementsExtractedIndependently ==
    (file.exists /\ file.ext = "json" /\ file.doc.decoded /\ load_state # "idle") =>
        /\ file.doc.obj.t = "list" =>
             /\ load_state = "returned"
             /\ texts = ElementSamples(file.doc.obj.items)
        /\ file.doc.obj.t = "dict" => Len(texts) <= 1
        /\ file.doc.obj.t \notin {"list", "dict"} => load_state = "failed"

Unavailable == ~file.exists \/ file.ext \notin {"jsonl", "json", "txt"}

EncodeStep == pc = "encode" /\ pc' = "encode" /\ model_pos' = model_pos + 1

\* every counter of the result is kept or increased by the step
CountersNonDecreasing ==
    /\ DOMAIN results'.models = DOMAIN results.models
    /\ \A nm \in DOMAIN results.models :
         /\ results'.models[nm].total_tokens >= results.models[nm].total_tokens
         /\ results'.models[nm].error_count  >= results.models[nm].error_count

\* the step applies the update of one encode call to the counters of its model
\* and to nothing else
OneEncodeCounted ==
    LET model_index == successful_models[model_pos]
        model_name  == tokenizers[model_index].model_name
        tokens      == Encode(tokenizers[model_index].kind, dataset_texts.texts[sample_idx])
        old         == results.models[model_name]
        new         == results'.models[model_name]
    IN  /\ \A nm \in DOMAIN results.models \ {model_name} :
             results'.models[nm] = results.models[nm]
        /\ IF tokens.raised
           THEN new.error_count = old.error_count + 1 /\ new.total_tokens = old.total_tokens
           ELSE new.total_tokens = old.total_tokens + tokens.n
                /\ new.error_count = old.error_count

\* the step changes exactly one of the two counters of its model
ExactlyOneChanged ==
    LET model_name == tokenizers[successful_models[model_pos]].model_name
        old        == results.models[model_name]
        new        == results'.models[model_name]
    IN  (new.total_tokens # old.total_tokens) # (new.error_count # old.error_count)

\* C19 (as claimed): while process_dataset runs no counter decreases, and every
\* encode call changes exactly one counter of its model: total_tokens by the
\* token count on success, error_count by 1 on failure.
C19_ExactlyOneCounterChanges ==
    [][ pc = "encode" =>
          /\ CountersNonDecreasing
          /\ EncodeStep => OneEncodeCounted /\ ExactlyOneChanged ]_vars

\* C19 (amended): while process_dataset runs no counter decreases, and every
\* encode call updates exactly one counter of its model: a successful encode
\* adds the token count, which may be 0, to total_tokens and leaves error_count
\* alone; a failed encode adds 1 to error_count and leaves total_tokens alone.
C19_OneCounterUpdated ==
    [][ pc = "encode" =>
          /\ CountersNonDecreasing
          /\ EncodeStep => OneEncodeCounted ]_vars

\* a pass over a corpus with an empty sample in which one model has counted
\* tokens and another has counted errors
C19_Witness ==
    /\ pc = "returned"
    /\ \E k \in 1..Len(dataset_texts.texts) : dataset_texts.texts[k] = EMPTY
    /\ \E nm \in DOMAIN results.models : results.models[nm].total_tokens > 0
    /\ \E nm \in DOMAIN results.models : results.models[nm].error_count > 0

\* C20: while process_dataset runs, the progress value never decreases; it
\* moves only in the step that ends a sample, after the inner loop has passed
\* every selected tokenizer, whatever the encode calls did, and then by the
\* UTF-8 byte length of that sample; every sample ends with such a step; and
\* when the pass returns the value equals total_bytes.
C20_ProgressCountsBytes ==
    [][ pc = "encode" =>
          /\ progress' >= progress
          /\ (progress' # progress \/ sample_idx' # sample_idx) =>
                /\ model_pos > Len(successful_models)
                /\ sample_idx' = sample_idx + 1
                /\ progress' = progress + TextBytes(dataset_texts.texts[sample_idx])
          /\ pc' = "returned" =>
                /\ sample_idx = Len(dataset_texts.texts) + 1
                /\ progress = results.total_bytes ]_vars

\* the pass has ended over a corpus on which the only tokenizer failed for
\* every sample, and the progress value has reached total_bytes
C20_Witness ==
    /\ pc = "returned"
    /\ results.present
    /\ results.total_bytes > 0
    /\ progress = results.total_bytes
    /\ Len(dataset_texts.texts) = 2
    /\ DOMAIN results.models # {}
    /\ \A nm \in DOMAIN results.models :
         /\ results.models[nm].error_count = results.sample_count
         /\ results.models[nm].total_tokens = 0

\* ---------------------------------------------------------------------------
\* Properties of the fallback sample and of the field scan
\* ---------------------------------------------------------------------------

\* the extractor returns None or "" for the value, without raising
NothingExtracted(v) ==
    LET e == _extract_text_from_json(v) IN e.kind # "raise" /\ ~RetTruthy(e)

ExtractorRaises(v) == _extract_text_from_json(v).kind = "raise"

\* C21: the step that reads a .jsonl line whose record gives no text appends
\* str(record) as the sample of that line and goes on reading; the load of a
\* .json list returns the texts of the elements that give one, with nothing in
\* place of an element that gives none, and it fails only if the extractor
\* raises on some element, never because an element gave no text.
C21_FallbackOnlyInLineMode ==
    [][ /\ (/\ load_state = "reading"
            /\ line_count' = line_count + 1
            /\ file.lines[line_count + 1].decoded
            /\ Strip(file.lines[line_count + 1].raw) # <<>>
            /\ NothingExtracted(file.lines[line_count + 1].obj))
           => /\ texts' = Append(texts, PyStr(file.lines[line_count + 1].obj))
              /\ load_state' = "reading"
        /\ (/\ load_state = "idle"
            /\ load_state' # "idle"
            /\ file.exists /\ file.ext = "json" /\ file.doc.decoded
            /\ file.doc.obj.t = "list")
           => /\ load_state' = "returned" => texts' = ElementSamples(file.doc.obj.items)
              /\ load_state' = "failed" =>
                   \E k \in 1..Len(file.doc.obj.items) : ExtractorRaises(file.doc.obj.items[k])
      ]_vars

\* a .jsonl file whose first line is an object without any text and whose
\* second line has a text field, after the load returned both samples
C21_Witness ==
    /\ file.exists /\ file.ext = "jsonl"
    /\ load_state = "returned"
    /\ Len(file.lines) = 2
    /\ file.lines[1].decoded /\ file.lines[1].obj.t = "dict"
    /\ NothingExtracted(file.lines[1].obj)
    /\ Len(texts) = 2
    /\ texts[1] = PyStr(file.lines[1].obj)
    /\ texts[2] = T_a

\* the order of the scan as the claim lists it
ClaimedOrder ==
    <<"text", "content", "article", "body", "question", "input", "output",
      "prompt", "context", "answer", "choices", "option", "options", "instruction">>

RECURSIVE PartsOf(_)
\* the string elements of a list and the extracted texts of its records
PartsOf(xs) ==
    IF xs = <<>> THEN <<>>
    ELSE (IF xs[1].t = "str" THEN <<xs[1].s>>
          ELSE IF xs[1].t = "dict" /\ RetTruthy(_extract_text_from_json(xs[1]))
          THEN <<_extract_text_from_json(xs[1]).text>>
          ELSE <<>>)
         \o PartsOf(Tail(xs))

\* the field value is a non-empty string, or a list with at least one part
YieldsText(v) ==
    \/ v.t = "str" /\ Len(v.s) > 0
    \/ v.t = "list" /\ PartsOf(v.items) # <<>>

FieldText(v) ==
    IF v.t = "str" THEN v.s
    ELSE IF v.t = "list" THEN Join(PartsOf(v.items), SP)
    ELSE PyStr(v)

\* position in ClaimedOrder of the first field of rec for which P holds
FirstField(rec, P(_)) ==
    CHOOSE f \in 1..Len(ClaimedOrder) :
        /\ HasKey(rec, ClaimedOrder[f]) /\ P(Get(rec, ClaimedOrder[f]))
        /\ \A g \in 1..(f - 1) :
             ~(HasKey(rec, ClaimedOrder[g]) /\ P(Get(rec, ClaimedOrder[g])))

SomeField(rec, P(_)) ==
    \E f \in 1..Len(ClaimedOrder) : HasKey(rec, ClaimedOrder[f]) /\ P(Get(rec, ClaimedOrder[f]))

ScanCase == extracted # NotCalled /\ item.t = "dict" /\ ~TripleApplies(item)

NewComparator == pc = "prompt" /\ pc' = "choose" /\ tokenizers' = NoTokenizers

\* C23: within one TokenizerComparator the loaded tokenizers, keys and bound
\* tokenizers alike, change in no step other than load_tokenizers: not in the
\* accounting, whatever the encode calls do, not in the display of the
\* results, not in the estimator and not at the restart prompt.
C23_TokenizersChangedOnlyByLoad ==
    [][ (pc # "tokenizers" /\ ~NewComparator) => tokenizers' = tokenizers ]_vars

\* after a pass in which some encode failed and after the estimator ran, the
\* comparator still holds the tokenizers that load_tokenizers returned
C23_Witness ==
    /\ pc = "prompt"
    /\ estimates # NoEstimates
    /\ tokenizers # NoTokenizers
    /\ DOMAIN tokenizers = Range(successful_models)
    /\ \E nm \in DOMAIN results.models : results.models[nm].error_count > 0

\* C24 (as claimed): when process_dataset has returned, whatever was typed at
\* the model prompt, the total_tokens reported for a loaded tokenizer is the
\* sum of the token counts it returned on the samples it encoded, each sample
\* taken once.
C24_EachSampleCountedOnce ==
    (pc = "returned" /\ results.present) =>
        \A i \in DOMAIN tokenizers :
            results.models[tokenizers[i].model_name].total_tokens
              = OwnTotal(tokenizers[i].kind, dataset_texts.texts)

\* the number of samples of ts on which a tokenizer of this kind raises
RECURSIVE OwnErrors(_, _)
OwnErrors(kind, ts) ==
    IF ts = <<>> THEN 0
    ELSE (IF Encode(kind, ts[1]).raised THEN 1 ELSE 0) + OwnErrors(kind, Tail(ts))

\* the samples process_dataset has finished, when it is between two samples or
\* has returned
SamplesDone == SubSeq(dataset_texts.texts, 1, sample_idx - 1)

\* C25 (as claimed): whenever process_dataset has finished k samples, for every
\* list of indices it was given, the error_count of a model is k minus the
\* number of those samples its tokenizer encoded, so that successes and errors
\* add up to k, and it never exceeds sample_count.
C25_SuccessesPlusErrorsIsK ==
    (results.present /\ (pc = "returned" \/ (pc = "encode" /\ model_pos = 1))) =>
        \A i \in DOMAIN tokenizers :
            LET mine == results.models[tokenizers[i].model_name] IN
            /\ mine.error_count = OwnErrors(tokenizers[i].kind, SamplesDone)
            /\ mine.error_count <= results.sample_count

\* ---------------------------------------------------------------------------
\* Properties of running_train and of format_time
\* ---------------------------------------------------------------------------

\* estimate_training_time called with the measured total and the epoch count
DirectEstimate(nm) ==
    IF est_in.variant = "gpu"
    THEN estimate_training_time(total_tokens_dict[nm], est_in.who, est_in.how, est_in.epochs)
    ELSE estimate_training_time_cfg(total_tokens_dict[nm], EstimatorConfig, nm, est_in.how,
                                    est_in.epochs)

\* C26: after running_train, in the variant with GPU and cluster menus and in
\* the variant driven by the model configuration, every model's line fails
\* exactly when estimate_training_time(total_tokens, ..., epochs) fails, and
\* otherwise reports the seconds that call returns and total_tokens * epochs
\* as the total of training tokens.
C26_EpochsAppliedOnce ==
    (pc = "prompt" /\ est_in \in TrainAnswers) =>
        \A nm \in DOMAIN total_tokens_dict :
            /\ nm \in DOMAIN estimates
            /\ estimates[nm].raised = DirectEstimate(nm).raised
            /\ ~estimates[nm].raised =>
                 /\ estimates[nm].seconds = DirectEstimate(nm).seconds
                 /\ estimates[nm].total_training_tokens
                      = total_tokens_dict[nm] * est_in.epochs

\* two epochs over 120000 tokens on one H100: 240000 / (3500 * 0.95) seconds
C26_Witness ==
    /\ pc = "prompt"
    /\ est_in = [variant |-> "gpu", token_count |-> 0, who |-> "NVIDIA H100",
                 how |-> "single", epochs |-> 2]
    /\ DOMAIN total_tokens_dict = {"M4"}
    /\ total_tokens_dict["M4"] = 120000
    /\ estimates["M4"].seconds = Ratio(240000 * 100, 3500 * 95)
    /\ estimates["M4"].total_training_tokens = 240000

UnitSeconds(u) ==
    CASE u = "days" -> 86400 [] u = "hours" -> 3600 [] u = "minutes" -> 60 [] u = "seconds" -> 1

\* the seconds a list of (value, unit) pairs stands for
RECURSIVE PartsTotal(_)
PartsTotal(parts) ==
    IF parts = <<>> THEN 0
    ELSE parts[1].n * UnitSeconds(parts[1].unit) + PartsTotal(Tail(parts))

\* C27: for a whole number of seconds s > 0 the units format_time renders,
\* each at most once and zero units left out, stand for exactly s seconds, with
\* fewer than 24 hours, 60 minutes and 60 seconds; for s <= 0 the text is the
\* zero-seconds text.
C27_UnitsAddUpToSeconds ==
    (fmt_out # FmtIdleOut /\ ~HasFrac(fmt_in)) =>
        LET p == fmt_out.parts
            s == Whole(fmt_in)
        IN  IF s <= 0
            THEN fmt_out.text = <<48, 31186>>
            ELSE /\ PartsTotal(p) = s
                 /\ \A i, j \in 1..Len(p) : i # j => p[i].unit # p[j].unit
                 /\ \A i \in 1..Len(p) :
                      /\ p[i].n > 0
                      /\ p[i].unit = "hours" => p[i].n < 24
                      /\ p[i].unit \in {"minutes", "seconds"} => p[i].n < 60
                 /\ fmt_out.text = RenderParts(p)

\* 3 days, 23 hours and 59 seconds, rendered without a minutes unit
C27_Witness ==
    /\ fmt_in = <<3 * 86400 + 23 * 3600 + 59, 1>>
    /\ fmt_out.parts = << [n |-> 3, unit |-> "days"], [n |-> 23, unit |-> "hours"],
                          [n |-> 59, unit |-> "seconds"] >>
    /\ fmt_out.text = <<51, 22825, 32, 50, 51, 23567, 26102, 32, 53, 57, 31186>>

\* the stages of run_tokenizer_comparison that can give up with
\* (None, None, None)
GivesUpIn == {"choose", "texts", "tokenizers"}

\* C28: in every iteration of main's loop the estimation is started only from
\* the check after run_tokenizer_comparison, with a result and a non-empty
\* token table in hand; a failed dataset or model selection, dataset load or
\* tokenizer load leaves no result, and the check then goes to the restart
\* prompt with no estimate made; an exception in the iteration goes to the
\* prompt too, and the program ends from nowhere but that prompt.
C28_EstimationOnlyAfterComparison ==
    [][ /\ (pc' = "estimate" /\ pc # "estimate") =>
              /\ pc = "compared"
              /\ results.present /\ DOMAIN total_tokens_dict # {}
              /\ results' = results /\ total_tokens_dict' = total_tokens_dict
        /\ (pc = "choose" /\ selected_model_indices' = <<>>) => pc' \in {"compared", "prompt"}
        /\ (pc = "texts" /\ dataset_texts'.texts = <<>>) => pc' = "compared"
        /\ (pc = "tokenizers" /\ successful_models' = <<>>) => pc' = "compared"
        /\ (pc \in GivesUpIn /\ pc' = "compared") =>
              ~results'.present /\ total_tokens_dict' = NoTotals
        /\ (pc = "compared" /\ (~results.present \/ DOMAIN total_tokens_dict = {})) =>
              pc' = "prompt" /\ estimates' = NoEstimates
        /\ (pc \in GivesUpIn /\ pc' \notin {"texts", "tokenizers", "account", "compared"}) =>
              pc' = "prompt" /\ estimates' = NoEstimates
        /\ (pc' = "exit" /\ pc # "exit") => pc = "prompt"
      ]_vars

\* every selected tokenizer failed to load: the iteration stands at the
\* restart prompt with the dataset loaded and no estimate made
C28_Witness ==
    /\ pc = "prompt"
    /\ dataset_texts.loaded /\ dataset_texts.texts # <<>>
    /\ load_calls # <<>>
    /\ successful_models = <<>>
    /\ ~results.present
    /\ estimates = NoEstimates

\* the letters of t are those of w, capitals or not
SameWord(t, w) ==
    /\ Len(t) = Len(w)
    /\ \A i \in 1..Len(t) : t[i] = w[i] \/ (t[i] \in 65..90 /\ t[i] + 32 = w[i])

\* t is one of the words, with blanks around it at most
Says(t, words) ==
    \E i \in 1..(Len(t) + 1), j \in 0..Len(t) :
        /\ \A k \in 1..Len(t) : (k < i \/ k > j) => t[k] \in {9, 10, 13, 32}
        /\ \E w \in words : SameWord(SubSeq(t, i, j), w)

\* the answers that say yes and those that say no
SaidYes == { t \in AnswerTexts : Says(t, {<<121>>, <<121, 101, 115>>}) }
SaidNo  == { t \in AnswerTexts : Says(t, {<<110>>, <<110, 111>>}) }

====
